---- MODULE Spec2Model ----
(***************************************************************************)
(* A model of the app_error library (src/lib/index.js): the AppStatus      *)
(* status accumulator, the AppLogger verbosity gate, and the stack-frame   *)
(* based call-site stamping they share.                                    *)
(***************************************************************************)
EXTENDS Integers, Sequences, FiniteSets, TLC

(***************************************************************************)
(* Bounds of the model.                                                    *)
(***************************************************************************)
\* the entries all statuses hold together: before an add, and after a merge
MaxEntries == 2
MaxMerged == 3
\* the length of an entry text after dedup
MaxTextLen == 19
\* the lines the sink holds
MaxSink == 2
\* the length of the list handed to dedup(), and the calls of dedup() on it
MaxListLen == 4
MaxDedups == 2
\* the frames of a call stack, and the extraFrames a caller asks for
MaxDepth == 5
MaxExtra == 6
MaxShown == 3
MaxLogged == 3
MaxHeld == 6

(***************************************************************************)
(* JavaScript values.  A value is a record tagged with its typeof.         *)
(***************************************************************************)
Undefined == [t |-> "undefined"]
Null == [t |-> "null"]
Num(n) == [t |-> "number", v |-> n]
Str(s) == [t |-> "string", v |-> s]

isString(data) == data.t = "string"

\* makeASCII, for the values the model passes as message parts: a string is
\* returned as it is, a number in its decimal form.
makeASCII(s) ==
    IF isString(s) THEN s.v
    ELSE IF s.t = "null" THEN "null"
    ELSE IF s.t = "undefined" THEN "undefined"
    ELSE ToString(s.v)

(***************************************************************************)
(* Options: the optional last argument of the logging functions.  A field  *)
(* the caller did not give is Undefined.                                   *)
(***************************************************************************)
Options(extraFrames, asString, level) ==
    [extraFrames |-> extraFrames, asString |-> asString, level |-> level]

EmptyOptions == Options(Undefined, Undefined, Undefined)

\* a ?? b
Coalesce(a, b) == IF a.t \in {"undefined", "null"} THEN b ELSE a

(***************************************************************************)
(* Call stacks.  A stack is a sequence of frames, deepest frame first; the *)
(* file of a frame is its path, split at '/'.                              *)
(***************************************************************************)
Frame(file, line) == [file |-> file, line |-> line]

LibFile == <<"app_error", "lib", "index.js">>
DemoFile == <<"app_error", "demo.mjs">>

RECURSIVE MinOf(_)
MinOf(S) == LET x == CHOOSE y \in S : TRUE
            IN IF S = {x} THEN x
               ELSE LET m == MinOf(S \ {x}) IN IF x < m THEN x ELSE m

\* a variant of numFramesInThisModule that does not stop at another file
numFramesInThisModule_all(frames) ==
    IF Len(frames) < 2 THEN 0 ELSE Len(frames) - 1

\* numFramesInThisModule(): frames is the stack as get() returns it, the
\* frame of numFramesInThisModule itself first (index 0 in the source).
numFramesInThisModule(frames) ==
    IF Len(frames) < 2 THEN 0
    ELSE LET thisModule == frames[2].file
             other == {i \in 0..(Len(frames) - 3) : frames[3 + i].file # thisModule}
         IN IF other # {} THEN MinOf(other) + 1 ELSE Len(frames) - 1

IndexNames == {"index.js", "index.mjs", "index.cjs"}

RECURSIVE JoinParts(_)
JoinParts(parts) ==
    IF parts = <<>> THEN "" ELSE makeASCII(Head(parts)) \o JoinParts(Tail(parts))

\* a variant of adorn that counts extraFrames from its own frame
adorn_own(parts, options, frames) ==
    LET extraFrames == Coalesce(options.extraFrames, Num(0)).v
        callingFrameNum == IF extraFrames < Len(frames) THEN extraFrames
                           ELSE Len(frames) - 1
        callingFrame == frames[callingFrameNum + 1]
        lineNo == callingFrame.line
        filePath == callingFrame.file
        callFile == IF filePath[Len(filePath)] \in IndexNames
                    THEN filePath[Len(filePath) - 1]
                    ELSE filePath[Len(filePath)]
    IN callFile \o ":" \o ToString(lineNo) \o ": " \o JoinParts(parts)

\* adorn(msg, ...moreMsg, options): frames is the stack inside adorn, the
\* frame of adorn itself first.
adorn(parts, options, frames) ==
    LET extraFrames == Coalesce(options.extraFrames, Num(0)).v
        callingFrameNum == IF 1 + extraFrames < Len(frames) THEN 1 + extraFrames
                           ELSE Len(frames) - 1
        callingFrame == frames[callingFrameNum + 1]
        lineNo == callingFrame.line
        filePath == callingFrame.file
        callFile == IF filePath[Len(filePath)] \in IndexNames
                    THEN filePath[Len(filePath) - 1]
                    ELSE filePath[Len(filePath)]
    IN callFile \o ":" \o ToString(lineNo) \o ": " \o JoinParts(parts)

\* Options.addFrames(number)
addFrames(options, number) ==
    [options EXCEPT !.extraFrames = Num(Coalesce(options.extraFrames, Num(0)).v + number)]

(***************************************************************************)
(* State.                                                                  *)
(***************************************************************************)
VARIABLES
    status,     \* the AppStatus objects: their fields
    heap,       \* the arrays the _info, warnings and errors fields refer to
    verbose,    \* AppLogger: this.verbose
    debugTags,  \* AppLogger: this.debugTags
    diagStream, \* AppLogger: this.diagStream, the sink it refers to
    sinks,      \* the chunks each sink has received, in order
    restore,    \* user code: the sink it saved while a buffer is assigned, or "none"
    list,       \* the list handed to dedup()
    ret,        \* the last call: its name, receiver, argument, and what it returned or threw
    lastSet,    \* history: per status, the value last set by addValue or a merge
    cleared,    \* history: whether clearErrors was ever applied
    verboseSet, \* history: how the verbosity of the logger was set
    listIn,     \* history: the list first handed to dedup()
    dedups,     \* history: the number of dedup() calls on list
    stack,      \* the call stack from which adorn() or numFramesInThisModule() is called
    held        \* user code: the fields of the Options object it keeps in a variable

statusVars == <<status, heap, lastSet, cleared>>
loggerVars == <<verbose, debugTags, diagStream, sinks, restore, verboseSet>>
dedupVars == <<list, listIn, dedups>>
frameVars == <<stack>>
optionVars == <<held>>
vars == <<status, heap, verbose, debugTags, diagStream, sinks, restore, list, ret,
          lastSet, cleared, verboseSet, listIn, dedups, stack, held>>

\* An options argument is a new Options object made for the call, or Held:
\* the one Options object the user code keeps in a variable, whose fields are
\* in held.
Held == [t |-> "held"]
Deref(options) == IF options = Held THEN held ELSE options

\* the frames the model lets the object user code keeps reach
HeldRoom(options) == options = Held => Coalesce(held.extraFrames, Num(0)).v < MaxHeld

\* the object user code keeps, after options.addFrames(number) on the argument
addFramesTo(options, number) == IF options = Held THEN addFrames(held, number) ELSE held

Statuses == {"A", "B"}
\* with R, the status that is only printed and logged
AllStatuses == Statuses \cup {"R"}
AttrNames == {"foo", "_tmp"}
Refs == 1..9

\* an own property that was never assigned
Absent == [t |-> "absent"]

This(s) == [t |-> "AppStatus", v |-> s]
Returned(op, s, val) ==
    [op |-> op, self |-> s, arg |-> Undefined, threw |-> FALSE, val |-> val]
Threw(op, s, err) ==
    [op |-> op, self |-> s, arg |-> Undefined, threw |-> TRUE, val |-> Str(err)]

info(s) == heap[status[s].info]
warnings(s) == heap[status[s].warnings]
errors(s) == heap[status[s].errors]

NumEntries(s) == Len(info(s)) + Len(warnings(s)) + Len(errors(s))
TotalEntries == NumEntries("A") + NumEntries("B")

\* the entries the model lets a status take: A and B share MaxEntries, the
\* status R that is only printed takes MaxShown
Room(s) == IF s = "R" THEN NumEntries(s) < MaxShown ELSE TotalEntries < MaxEntries

\* A new array: the address of the array the field referred to when nothing
\* else refers to it (the old array is garbage), else the least free address.
NewArray(cur) ==
    LET used == UNION {{status[s].info, status[s].warnings, status[s].errors} : s \in AllStatuses}
        holders == {<<s, f>> \in AllStatuses \X {"info", "warnings", "errors"} : status[s][f] = cur}
    IN IF Cardinality(holders) <= 1 THEN cur ELSE MinOf(Refs \ used)

(***************************************************************************)
(* AppStatus: the pure methods.                                            *)
(***************************************************************************)
hasErrors(s) == Len(errors(s)) > 0
ok(s) == ~ hasErrors(s)
hasWarnings(s) == Len(warnings(s)) > 0
hasInfo(s) == Len(info(s)) > 0
hasValue(s) == status[s].value # Undefined

\* the own property names of a status object, and what each holds
PropNames(s) ==
    {"_info", "warnings", "errors", "lastError", "value"}
        \cup {k \in AttrNames : status[s].attrs[k] # Absent}

FirstChar(key) == IF key \in {"_info", "_tmp"} THEN "_" ELSE "a"

\* a variant of getExtraAttrs that reports the value also when it is undefined
getExtraAttrs_value(s) ==
    LET keys == {key \in PropNames(s) :
                    /\ ~ (FirstChar(key) = "_")
                    /\ ~ (key \in {"_info", "warnings", "errors", "lastError"})}
    IN [key \in keys |-> IF key = "value" THEN status[s].value ELSE status[s].attrs[key]]

getExtraAttrs(s) ==
    LET keys == {key \in PropNames(s) :
                    /\ ~ (FirstChar(key) = "_")
                    /\ ~ (key \in {"_info", "warnings", "errors", "lastError"})
                    /\ ~ (key = "value" /\ status[s].value = Undefined)}
    IN [key \in keys |-> IF key = "value" THEN status[s].value ELSE status[s].attrs[key]]

\* dedup(msgs): count the texts in a Map, which keeps its keys in insertion
\* order, then rebuild the list from the Map.
RECURSIVE CountInto(_, _, _)
CountInto(msgs, keys, counts) ==
    IF msgs = <<>> THEN [keys |-> keys, counts |-> counts]
    ELSE LET msg == Head(msgs)
         IN IF msg \in DOMAIN counts
            THEN CountInto(Tail(msgs), keys, [counts EXCEPT ![msg] = @ + 1])
            ELSE CountInto(Tail(msgs), Append(keys, msg),
                           [k \in DOMAIN counts \cup {msg} |->
                               IF k = msg THEN 1 ELSE counts[k]])

\* a variant of dedup that suffixes a text only from its third occurrence on
dedup_fromThird(msgs) ==
    LET m == CountInto(msgs, <<>>, [k \in {} |-> 0])
    IN [i \in 1..Len(m.keys) |->
           LET key == m.keys[i]
               val == m.counts[key]
           IN IF val > 2 THEN key \o " (x" \o ToString(val) \o ")" ELSE key]

dedup(msgs) ==
    LET m == CountInto(msgs, <<>>, [k \in {} |-> 0])
    IN [i \in 1..Len(m.keys) |->
           LET key == m.keys[i]
               val == m.counts[key]
           IN IF val > 1 THEN key \o " (x" \o ToString(val) \o ")" ELSE key]

\* a variant of #getAdornedMsg that takes itself and one calling method for
\* the frames of this module
getAdornedMsg_two(parts, options, caller) ==
    adorn(parts, addFrames(options, 2), <<Frame(LibFile, 123), Frame(LibFile, 547)>> \o caller)

\* the number #getAdornedMsg adds to the frames of the options it is given
getAdornedMsg_frames(caller) ==
    numFramesInThisModule(<<Frame(LibFile, 27), Frame(LibFile, 543)>> \o caller)

\* #getAdornedMsg(msg, ...moreMsg): caller is the stack in the method that
\* calls it, that method's frame first.
getAdornedMsg(parts, options, caller) ==
    LET extraFrames == numFramesInThisModule(
                           <<Frame(LibFile, 27), Frame(LibFile, 543)>> \o caller)
    IN adorn(parts, addFrames(options, extraFrames),
             <<Frame(LibFile, 123), Frame(LibFile, 547)>> \o caller)

(***************************************************************************)
(* AppStatus: the constructor and the mutators.  stk is the stack of the   *)
(* user code that makes the call.  The calls of the module's own logger    *)
(* (l.ifDebug in addInfo) write nothing: that logger has no debug tag.     *)
(***************************************************************************)
EmptyAttrs == [k \in AttrNames |-> Absent]

\* new AppStatus(msg, ...moreMsg), assigned to the variable s; msg may be
\* Undefined.
NewAppStatus(s, msg, options, stk) ==
    /\ msg # Undefined => TotalEntries - NumEntries(s) < MaxEntries
    /\ LET i == NewArray(status[s].info)
           w == NewArray(status[s].warnings)
           e == NewArray(status[s].errors)
           adornedMsg == getAdornedMsg(<<msg>>, Deref(options),
                             <<Frame(LibFile, 596), Frame(LibFile, 460)>> \o stk)
       IN /\ status' = [status EXCEPT ![s] =
                 [info |-> i, warnings |-> w, errors |-> e,
                  lastError |-> IF msg # Undefined THEN adornedMsg ELSE "",
                  value |-> Undefined,
                  attrs |-> EmptyAttrs]]
          /\ heap' = [heap EXCEPT ![i] = <<>>, ![w] = <<>>,
                          ![e] = IF msg # Undefined THEN <<adornedMsg>> ELSE <<>>]
    /\ ret' = [Returned("new", s, This(s)) EXCEPT !.arg = options]
    /\ lastSet' = [lastSet EXCEPT ![s] = Undefined]
    /\ held' = IF msg # Undefined THEN addFramesTo(options, getAdornedMsg_frames(<<Frame(LibFile, 596), Frame(LibFile, 460)>> \o stk)) ELSE held
    /\ UNCHANGED <<cleared, loggerVars, dedupVars, frameVars>>

addInfo(s, msg, options, stk) ==
    /\ Room(s) /\ HeldRoom(options)
    /\ LET adornedMsg == getAdornedMsg(<<msg>>, Deref(options), <<Frame(LibFile, 558)>> \o stk)
       IN heap' = [heap EXCEPT ![status[s].info] = Append(@, adornedMsg)]
    /\ ret' = [Returned("addInfo", s, This(s)) EXCEPT !.arg = options]
    /\ held' = addFramesTo(options, getAdornedMsg_frames(<<Frame(LibFile, 558)>> \o stk))
    /\ UNCHANGED <<status, lastSet, cleared, loggerVars, dedupVars, frameVars>>

addWarning(s, msg, options, stk) ==
    /\ Room(s) /\ HeldRoom(options)
    /\ LET adornedMsg == getAdornedMsg(<<msg>>, Deref(options), <<Frame(LibFile, 572)>> \o stk)
       IN heap' = [heap EXCEPT ![status[s].warnings] = Append(@, adornedMsg)]
    /\ ret' = [Returned("addWarning", s, This(s)) EXCEPT !.arg = options]
    /\ held' = addFramesTo(options, getAdornedMsg_frames(<<Frame(LibFile, 572)>> \o stk))
    /\ UNCHANGED <<status, lastSet, cleared, loggerVars, dedupVars, frameVars>>

addError(s, msg, options, stk) ==
    /\ Room(s) /\ HeldRoom(options)
    /\ LET adornedMsg == getAdornedMsg(<<msg>>, Deref(options), <<Frame(LibFile, 596)>> \o stk)
       IN /\ heap' = [heap EXCEPT ![status[s].errors] = Append(@, adornedMsg)]
          /\ status' = [status EXCEPT ![s].lastError = adornedMsg]
    /\ ret' = [Returned("addError", s, This(s)) EXCEPT !.arg = options]
    /\ held' = addFramesTo(options, getAdornedMsg_frames(<<Frame(LibFile, 596)>> \o stk))
    /\ UNCHANGED <<lastSet, cleared, loggerVars, dedupVars, frameVars>>

\* addWarn(msg, ...moreMsg): calls addWarning
addWarn(s, msg, options, stk) ==
    /\ Room(s)
    /\ LET adornedMsg == getAdornedMsg(<<msg>>, Deref(options),
                             <<Frame(LibFile, 572), Frame(LibFile, 585)>> \o stk)
       IN heap' = [heap EXCEPT ![status[s].warnings] = Append(@, adornedMsg)]
    /\ ret' = [Returned("addWarn", s, This(s)) EXCEPT !.arg = options]
    /\ held' = addFramesTo(options, getAdornedMsg_frames(<<Frame(LibFile, 572), Frame(LibFile, 585)>> \o stk))
    /\ UNCHANGED <<status, lastSet, cleared, loggerVars, dedupVars, frameVars>>

\* new AppError(msg, ...moreMsg): makes new AppStatus(msg, ...moreMsg), which
\* toStatus() returns; s is the variable the caller assigns that status to
NewAppError(s, msg, options, stk) ==
    /\ TotalEntries - NumEntries(s) < MaxEntries
    /\ LET i == NewArray(status[s].info)
           w == NewArray(status[s].warnings)
           e == NewArray(status[s].errors)
           adornedMsg == getAdornedMsg(<<msg>>, Deref(options),
                             <<Frame(LibFile, 596), Frame(LibFile, 460), Frame(LibFile, 796)>> \o stk)
       IN /\ status' = [status EXCEPT ![s] =
                 [info |-> i, warnings |-> w, errors |-> e,
                  lastError |-> adornedMsg,
                  value |-> Undefined,
                  attrs |-> EmptyAttrs]]
          /\ heap' = [heap EXCEPT ![i] = <<>>, ![w] = <<>>, ![e] = <<adornedMsg>>]
    /\ ret' = [Returned("newError", s, This(s)) EXCEPT !.arg = options]
    /\ lastSet' = [lastSet EXCEPT ![s] = Undefined]
    /\ held' = addFramesTo(options, getAdornedMsg_frames(<<Frame(LibFile, 596), Frame(LibFile, 460), Frame(LibFile, 796)>> \o stk))
    /\ UNCHANGED <<cleared, loggerVars, dedupVars, frameVars>>

\* array.push(...items)
pushAll_otherFirst(array, items) == items \o array
pushAll(array, items) == array \o items

\* if (other.value !== undefined) this.value = other.value
mergedValue_always(mine, theirs) == theirs
mergedValue(mine, theirs) == IF theirs # Undefined THEN theirs ELSE mine

\* addStatus(other), other an AppStatus: a variant that adopts the other
\* status's error array when the receiver has no errors
addStatus_shared(s, other) ==
    /\ TotalEntries + NumEntries(other) <= MaxMerged
    /\ LET e == IF errors(s) = <<>> THEN status[other].errors ELSE status[s].errors
           h1 == IF errors(s) = <<>> THEN heap
                 ELSE [heap EXCEPT ![e] = pushAll(@, heap[status[other].errors])]
           h2 == [h1 EXCEPT ![status[s].warnings] = pushAll(@, h1[status[other].warnings])]
           h3 == [h2 EXCEPT ![status[s].info] = pushAll(@, h2[status[other].info])]
           xtra == getExtraAttrs(other)
       IN /\ heap' = h3
          /\ status' = [status EXCEPT ![s] =
                 [@ EXCEPT !.errors = e,
                           !.lastError = IF status[other].lastError # ""
                                         THEN status[other].lastError ELSE @,
                           !.value = mergedValue(@, status[other].value),
                           !.attrs = [k \in AttrNames |->
                                         IF k \in DOMAIN xtra THEN xtra[k] ELSE @[k]]]]
    /\ ret' = [Returned("addStatus", s, This(s)) EXCEPT !.arg = This(other)]
    /\ lastSet' = [lastSet EXCEPT ![s] = IF status[other].value # Undefined
                                         THEN status[other].value ELSE @]
    /\ UNCHANGED <<cleared, loggerVars, dedupVars, frameVars, optionVars>>

\* addStatus(other), other an AppStatus.  The guard of line 608 negates
\* other before the instanceof test, so it never fires (see addStatusOf).
addStatus(s, other) ==
    /\ TotalEntries + NumEntries(other) <= MaxMerged
    /\ LET h1 == [heap EXCEPT ![status[s].errors] = pushAll(@, heap[status[other].errors])]
           h2 == [h1 EXCEPT ![status[s].warnings] = pushAll(@, h1[status[other].warnings])]
           h3 == [h2 EXCEPT ![status[s].info] = pushAll(@, h2[status[other].info])]
           xtra == getExtraAttrs(other)
       IN /\ heap' = h3
          /\ status' = [status EXCEPT ![s] =
                 [@ EXCEPT !.lastError = IF status[other].lastError # ""
                                         THEN status[other].lastError ELSE @,
                           !.value = mergedValue(@, status[other].value),
                           !.attrs = [k \in AttrNames |->
                                         IF k \in DOMAIN xtra THEN xtra[k] ELSE @[k]]]]
    /\ ret' = [Returned("addStatus", s, This(s)) EXCEPT !.arg = This(other)]
    /\ lastSet' = [lastSet EXCEPT ![s] = IF status[other].value # Undefined
                                         THEN status[other].value ELSE @]
    /\ UNCHANGED <<cleared, loggerVars, dedupVars, frameVars, optionVars>>

addValue(s, val) ==
    /\ status' = [status EXCEPT ![s].value = val]
    /\ ret' = Returned("addValue", s, This(s))
    /\ lastSet' = [lastSet EXCEPT ![s] = val]
    /\ UNCHANGED <<heap, cleared, loggerVars, dedupVars, frameVars, optionVars>>

\* a variant of clearErrors that also resets lastError
clearErrors_lastError(s) ==
    /\ LET e == NewArray(status[s].errors)
       IN /\ status' = [status EXCEPT ![s].errors = e, ![s].lastError = ""]
          /\ heap' = [heap EXCEPT ![e] = <<>>]
    /\ ret' = Returned("clearErrors", s, This(s))
    /\ cleared' = TRUE
    /\ UNCHANGED <<lastSet, loggerVars, dedupVars, frameVars, optionVars>>

clearErrors(s) ==
    /\ LET e == NewArray(status[s].errors)
       IN /\ status' = [status EXCEPT ![s].errors = e]
          /\ heap' = [heap EXCEPT ![e] = <<>>]
    /\ ret' = Returned("clearErrors", s, This(s))
    /\ cleared' = TRUE
    /\ UNCHANGED <<lastSet, loggerVars, dedupVars, frameVars, optionVars>>

\* clearWarnings has no return statement
clearWarnings(s) ==
    /\ LET w == NewArray(status[s].warnings)
       IN /\ status' = [status EXCEPT ![s].warnings = w]
          /\ heap' = [heap EXCEPT ![w] = <<>>]
    /\ ret' = Returned("clearWarnings", s, Undefined)
    /\ UNCHANGED <<lastSet, cleared, loggerVars, dedupVars, frameVars, optionVars>>

\* a variant of clearInfo that assigns the empty list to this.errors
clearInfo_errors(s) ==
    /\ LET e == NewArray(status[s].errors)
       IN /\ status' = [status EXCEPT ![s].errors = e]
          /\ heap' = [heap EXCEPT ![e] = <<>>]
    /\ ret' = Returned("clearInfo", s, This(s))
    /\ UNCHANGED <<lastSet, cleared, loggerVars, dedupVars, frameVars, optionVars>>

clearInfo(s) ==
    /\ LET i == NewArray(status[s].info)
       IN /\ status' = [status EXCEPT ![s].info = i]
          /\ heap' = [heap EXCEPT ![i] = <<>>]
    /\ ret' = Returned("clearInfo", s, This(s))
    /\ UNCHANGED <<lastSet, cleared, loggerVars, dedupVars, frameVars, optionVars>>

\* dedupInfo has no return statement
dedupInfo(s) ==
    /\ \A i \in 1..Len(dedup(info(s))) : Len(dedup(info(s))[i]) <= MaxTextLen
    /\ heap' = [heap EXCEPT ![status[s].info] = dedup(@)]
    /\ ret' = Returned("dedupInfo", s, Undefined)
    /\ UNCHANGED <<status, lastSet, cleared, loggerVars, dedupVars, frameVars, optionVars>>

\* a variant of getValue without the hasErrors() guard
getValue_unguarded(s) ==
    /\ ret' = Returned("getValue", s, status[s].value)
    /\ UNCHANGED <<statusVars, loggerVars, dedupVars, frameVars, optionVars>>

\* getValue(): the AppError it throws is built from a status of its own
getValue(s) ==
    /\ ret' = IF hasErrors(s) THEN Threw("getValue", s, "AppError")
              ELSE Returned("getValue", s, status[s].value)
    /\ UNCHANGED <<statusVars, loggerVars, dedupVars, frameVars, optionVars>>

\* s[name] = val: the user code attaches a field of its own to the status
setAttr(s, name, val) ==
    /\ status' = [status EXCEPT ![s].attrs[name] = val]
    /\ ret' = Returned("setAttr", s, val)
    /\ UNCHANGED <<heap, lastSet, cleared, loggerVars, dedupVars, frameVars, optionVars>>

\* s.getExtraAttrs() called from user code; the Map it returns
callGetExtraAttrs(s) ==
    /\ ret' = Returned("getExtraAttrs", s, [t |-> "Map", v |-> getExtraAttrs(s)])
    /\ UNCHANGED <<statusVars, loggerVars, dedupVars, frameVars, optionVars>>

\* array.join(sep)
RECURSIVE Join(_, _)
Join(seq, sep) ==
    IF seq = <<>> THEN ""
    ELSE IF Len(seq) = 1 THEN seq[1]
    ELSE seq[1] \o sep \o Join(Tail(seq), sep)

errorMsg(s) == IF Len(errors(s)) > 0 THEN "ERROR: " \o Join(errors(s), "; ") ELSE ""
warnMsg(s) == IF Len(warnings(s)) > 0 THEN "WARN: " \o Join(warnings(s), "; ") ELSE ""
infoMsg(s) == IF Len(info(s)) > 0 THEN "INFO: " \o Join(info(s), "; ") ELSE ""

\* makeASCII(x, true): a string is put in double quotes
makeASCIIcanonical(x) == IF isString(x) THEN "\"" \o x.v \o "\"" ELSE makeASCII(x)

\* the own properties of a status in the order they were created: value by
\* the constructor, the attached fields after it
KeyOrder == <<"value", "foo", "_tmp">>

\* makeASCII of a Map: '{' key:value,... '}' in the order of the Map
makeASCIIMap(m) ==
    LET keys == SelectSeq(KeyOrder, LAMBDA k : k \in DOMAIN m)
        pairs == [i \in 1..Len(keys) |->
                    makeASCIIcanonical(Str(keys[i])) \o ":" \o makeASCIIcanonical(m[keys[i]])]
    IN "{" \o Join(pairs, ",") \o "}"

xtraAttrsToStr(s) ==
    LET extraAttrs == getExtraAttrs(s)
    IN IF DOMAIN extraAttrs # {} THEN "extra attributes: " \o makeASCIIMap(extraAttrs) ELSE ""

\* a variant of toString that puts the warnings before the errors
toString_warnFirst(s) ==
    LET b1 == IF hasWarnings(s) THEN warnMsg(s) ELSE ""
        b2 == IF Len(errors(s)) > 0
              THEN (IF b1 # "" THEN b1 \o "; " ELSE b1) \o errorMsg(s) ELSE b1
        b3 == IF Len(info(s)) > 0
              THEN (IF b2 # "" THEN b2 \o "; " ELSE b2) \o infoMsg(s) ELSE b2
        b4 == IF b3 = "" THEN "ok" ELSE b3
        xtraAttrs == xtraAttrsToStr(s)
    IN IF xtraAttrs # "" THEN b4 \o "; " \o xtraAttrs ELSE b4

toString(s) ==
    LET b1 == IF hasErrors(s) THEN errorMsg(s) ELSE ""
        b2 == IF Len(warnings(s)) > 0
              THEN (IF b1 # "" THEN b1 \o "; " ELSE b1) \o warnMsg(s) ELSE b1
        b3 == IF Len(info(s)) > 0
              THEN (IF b2 # "" THEN b2 \o "; " ELSE b2) \o infoMsg(s) ELSE b2
        b4 == IF b3 = "" THEN "ok" ELSE b3
        xtraAttrs == xtraAttrsToStr(s)
    IN IF xtraAttrs # "" THEN b4 \o "; " \o xtraAttrs ELSE b4

\* s.toString() called from user code
callToString(s) ==
    /\ ret' = Returned("toString", s, Str(toString(s)))
    /\ UNCHANGED <<statusVars, loggerVars, dedupVars, frameVars, optionVars>>

(***************************************************************************)
(* addStatus(other) with an argument that is not an AppStatus.  An object  *)
(* argument is a record of the properties addStatus reads; Undefined for a *)
(* property the object does not have.                                      *)
(***************************************************************************)
Bool(b) == [t |-> "boolean", v |-> b]
Obj(errs, lastErr, warns, infos, val, xtra) ==
    [t |-> "object", errors |-> errs, lastError |-> lastErr, warnings |-> warns,
     info |-> infos, value |-> val, getExtraAttrs |-> xtra]
List(seq) == [t |-> "array", v |-> seq]

\* a look-alike of an empty status, an object with an errors list only, and
\* values that are not objects
NotAppStatus ==
    { Undefined, Num(5),
      Obj(List(<<>>), Str(""), List(<<>>), List(<<>>), Undefined, List(<<>>)),
      Obj(List(<<"oops">>), Undefined, Undefined, Undefined, Undefined, Undefined) }

Truthy(v) ==
    CASE v.t \in {"undefined", "null"} -> FALSE
      [] v.t = "number" -> v.v # 0
      [] v.t = "string" -> v.v # ""
      [] v.t = "boolean" -> v.v
      [] OTHER -> TRUE

instanceofAppStatus(v) == v.t = "AppStatus"

\* other[name]: reading a property of undefined or null is a TypeError, a
\* primitive has none of the properties
HasProps(other) == other.t \notin {"undefined", "null"}
Prop(other, name) == IF other.t = "object" THEN other[name] ELSE Undefined
Iterable(v) == v.t \in {"array", "string"}

\* The statements of addStatus in order; the first that fails throws a
\* TypeError and leaves the effects of the earlier ones in place.
addStatusOf(s, other) ==
    /\ other \in NotAppStatus
    /\ LET guard == instanceofAppStatus(Bool(~ Truthy(other))) \* ! other instanceof AppStatus
           okErrors == HasProps(other) /\ Iterable(Prop(other, "errors"))
           okWarnings == okErrors /\ Iterable(Prop(other, "warnings"))
           okInfo == okWarnings /\ Iterable(Prop(other, "info"))
           okAttrs == okInfo /\ Prop(other, "getExtraAttrs") # Undefined
           h1 == IF okErrors
                 THEN [heap EXCEPT ![status[s].errors] = pushAll(@, Prop(other, "errors").v)]
                 ELSE heap
           h2 == IF okWarnings
                 THEN [h1 EXCEPT ![status[s].warnings] = pushAll(@, Prop(other, "warnings").v)]
                 ELSE h1
           h3 == IF okInfo
                 THEN [h2 EXCEPT ![status[s].info] = pushAll(@, Prop(other, "info").v)]
                 ELSE h2
           newLast == IF okErrors /\ Truthy(Prop(other, "lastError"))
                      THEN Prop(other, "lastError").v ELSE status[s].lastError
           newValue == IF okInfo THEN mergedValue(status[s].value, Prop(other, "value"))
                       ELSE status[s].value
       IN /\ ~ guard =>
               /\ Len(h3[status[s].errors]) + Len(h3[status[s].warnings])
                      + Len(h3[status[s].info]) - NumEntries(s) + TotalEntries <= MaxMerged
               /\ heap' = h3
               /\ status' = [status EXCEPT ![s].lastError = newLast, ![s].value = newValue]
               /\ lastSet' = [lastSet EXCEPT ![s] = newValue]
               /\ ret' = [(IF okAttrs THEN Returned("addStatus", s, This(s))
                           ELSE Threw("addStatus", s, "TypeError")) EXCEPT !.arg = other]
          /\ guard =>
               /\ UNCHANGED <<heap, status, lastSet>>
               /\ ret' = [Threw("addStatus", s, "Error: addStatus() is for merging in another AppStatus object")
                             EXCEPT !.arg = other]
    /\ UNCHANGED <<cleared, loggerVars, dedupVars, frameVars, optionVars>>

(***************************************************************************)
(* AppLogger.  One logger object, component 'demo'; diagStream is the     *)
(* sink it writes to: process.stderr or a buffer the caller assigned.      *)
(***************************************************************************)
component == "demo"
Sinks == {"stderr", "buff"}
LoggerStack == <<Frame(DemoFile, 30), Frame(DemoFile, 5)>>
LogMsg == Str("m")

\* ToNumber, for the operands of the comparisons of verbose
DigitStrings == {ToString(n) : n \in 0..9}
ToNumber(v) ==
    CASE v.t = "number" -> v.v
      [] v.t = "boolean" -> IF v.v THEN 1 ELSE 0
      [] v.t = "string" /\ v.v \in DigitStrings -> CHOOSE n \in 0..9 : ToString(n) = v.v

LoggerReturned(op, val) == Returned(op, "logger", val)
LoggerThrew(op, err) == Threw(op, "logger", err)

\* options?.verbose ?? process.env.VERBOSE, with || in the place of ??
verboseOption_or(optVerbose, env) == IF Truthy(optVerbose) THEN optVerbose ELSE env
verboseOption(optVerbose, env) == Coalesce(optVerbose, env)

\* typeof x, and x instanceof Object: an object with the fields verbose and
\* debug is a record without a tag
typeof(x) == IF "t" \in DOMAIN x THEN (IF x.t \in {"null", "array"} THEN "object" ELSE x.t)
             ELSE "object"
instanceofObject(x) == IF "t" \in DOMAIN x THEN x.t = "array" ELSE TRUE

\* a variant of constructorError that accepts any number of arguments
constructorError_second(options, more) ==
    IF options # Undefined /\ ~ instanceofObject(options)
    THEN <<Str("options must be an object, but was "), Str(typeof(options))>>
    ELSE <<>>

\* the message of the AppError the constructor throws for its arguments,
\* <<>> when it throws none; more is the number of arguments after options
constructorError(options, more) ==
    IF options # Undefined /\ ~ instanceofObject(options)
    THEN <<Str("options must be an object, but was "), Str(typeof(options))>>
    ELSE IF more > 0
    THEN <<Str("only two arguments accepted by AppLogger constructor")>>
    ELSE <<>>

\* new AppLogger(componentName, options, ...): options is Undefined or the
\* second argument, more the number of arguments after it, env is
\* process.env.VERBOSE.  When the constructor throws, the variable keeps the
\* logger it held.
NewAppLogger(options, more, env) ==
    LET err == constructorError(options, more)
        debug == IF options = Undefined THEN Bool(FALSE)
                 ELSE Coalesce(options.debug, Bool(FALSE))
        optVerbose == IF options = Undefined THEN Undefined ELSE options.verbose
    IN IF err # <<>>
       THEN /\ ret' = [LoggerThrew("newLogger", "ERROR: " \o
                           getAdornedMsg(err, EmptyOptions,
                               <<Frame(LibFile, 596), Frame(LibFile, 460), Frame(LibFile, 796),
                                 Frame(LibFile, IF Len(err) = 2 THEN 151 ELSE 153)>>
                               \o LoggerStack))
                        EXCEPT !.arg = [options |-> options, more |-> more]]
            /\ UNCHANGED <<loggerVars, statusVars, dedupVars, frameVars, optionVars>>
       ELSE /\ debugTags' = IF debug.t = "boolean" /\ debug.v THEN {"*"} ELSE {}
            /\ verbose' = verboseOption(optVerbose, env)
            /\ verboseSet' = IF Coalesce(optVerbose, Undefined) # Undefined THEN "option"
                             ELSE IF env # Undefined THEN "env" ELSE "never"
            /\ diagStream' = "stderr"
            /\ ret' = [LoggerReturned("newLogger", Undefined)
                         EXCEPT !.arg = [options |-> options, more |-> more]]
            /\ UNCHANGED <<sinks, restore, statusVars, dedupVars, frameVars, optionVars>>

setVerbose(val) ==
    /\ verbose' = val
    /\ verboseSet' = "setter"
    /\ ret' = LoggerReturned("setVerbose", Undefined)
    /\ UNCHANGED <<debugTags, diagStream, sinks, restore, statusVars, dedupVars, frameVars, optionVars>>

\* l.verbose = val
assignVerbose(val) ==
    /\ verbose' = val
    /\ verboseSet' = "assignment"
    /\ ret' = LoggerReturned("verbose=", val)
    /\ UNCHANGED <<debugTags, diagStream, sinks, restore, statusVars, dedupVars, frameVars, optionVars>>

\* a variant of commonOut that never takes asString from the options
commonOut_always(lvl, parts, options, caller) ==
    LET extraFrames == Coalesce(options.extraFrames, Num(0)).v + 2
        formatted == component \o ": " \o lvl \o ": " \o
                     adorn(parts, Options(Num(extraFrames), Undefined, Undefined),
                           <<Frame(LibFile, 123), Frame(LibFile, 265)>> \o caller)
    IN [line |-> formatted, asString |-> FALSE]

\* a variant of commonOut that goes above one frame of its own
commonOut_one(lvl, parts, options, caller) ==
    LET extraFrames == Coalesce(options.extraFrames, Num(0)).v + 1
        asString == Coalesce(options.asString, Bool(FALSE))
        formatted == component \o ": " \o lvl \o ": " \o
                     adorn(parts, Options(Num(extraFrames), Undefined, Undefined),
                           <<Frame(LibFile, 123), Frame(LibFile, 265)>> \o caller)
    IN [line |-> formatted, asString |-> Truthy(asString)]

\* commonOut(lvl, msg, ...moreMsg): caller is the stack in the method that
\* calls it.  The line it formats, and whether it is returned or written.
commonOut(lvl, parts, options, caller) ==
    LET extraFrames == Coalesce(options.extraFrames, Num(0)).v + 2
        asString == Coalesce(options.asString, Bool(FALSE))
        formatted == component \o ": " \o lvl \o ": " \o
                     adorn(parts, Options(Num(extraFrames), Undefined, Undefined),
                           <<Frame(LibFile, 123), Frame(LibFile, 265)>> \o caller)
    IN [line |-> formatted, asString |-> Truthy(asString)]

\* what a logging call leaves on the sink
\* a variant of Written that writes to the sink the constructor assigned
Written_stderr(out) ==
    IF out.asString THEN sinks
    ELSE [sinks EXCEPT !["stderr"] = Append(@, out.line \o "\n")]

Written(out) ==
    IF out.asString THEN sinks
    ELSE [sinks EXCEPT ![diagStream] = Append(@, out.line \o "\n")]

\* getVerbose() throws when this holds
verbosityUnset == verbose = Undefined

NotSetError == "Error: verbosity not set on logger '" \o component \o "'"

\* v1, v2, v3: log iff getVerbose() is at least the level; the result of
\* commonOut is not returned
v1(msg, options, stk) ==
    /\ IF verbosityUnset
       THEN /\ ret' = LoggerThrew("v1", NotSetError)
            /\ UNCHANGED sinks
       ELSE /\ IF ToNumber(verbose) > 0
               THEN /\ Len(sinks[diagStream]) < MaxSink
                    /\ sinks' = Written(commonOut("V1", <<msg>>, options,
                                                 <<Frame(LibFile, 329)>> \o stk))
               ELSE UNCHANGED sinks
            /\ ret' = [LoggerReturned("v1", Undefined) EXCEPT !.arg = options]
    /\ UNCHANGED <<verbose, debugTags, diagStream, verboseSet, restore, statusVars, dedupVars, frameVars, optionVars>>

\* a variant of v2 that logs only above level 2
v2_above(msg, options, stk) ==
    /\ IF verbosityUnset
       THEN /\ ret' = LoggerThrew("v2", NotSetError)
            /\ UNCHANGED sinks
       ELSE /\ IF ToNumber(verbose) > 2
               THEN /\ Len(sinks[diagStream]) < MaxSink
                    /\ sinks' = Written(commonOut("V2", <<msg>>, options,
                                            <<Frame(LibFile, 343)>> \o stk))
               ELSE UNCHANGED sinks
            /\ ret' = [LoggerReturned("v2", Undefined) EXCEPT !.arg = options]
    /\ UNCHANGED <<verbose, debugTags, diagStream, verboseSet, restore, statusVars, dedupVars, frameVars, optionVars>>

v2(msg, options, stk) ==
    /\ IF verbosityUnset
       THEN /\ ret' = LoggerThrew("v2", NotSetError)
            /\ UNCHANGED sinks
       ELSE /\ IF ToNumber(verbose) >= 2
               THEN /\ Len(sinks[diagStream]) < MaxSink
                    /\ sinks' = Written(commonOut("V2", <<msg>>, options,
                                                 <<Frame(LibFile, 343)>> \o stk))
               ELSE UNCHANGED sinks
            /\ ret' = [LoggerReturned("v2", Undefined) EXCEPT !.arg = options]
    /\ UNCHANGED <<verbose, debugTags, diagStream, verboseSet, restore, statusVars, dedupVars, frameVars, optionVars>>

v3(msg, options, stk) ==
    /\ IF verbosityUnset
       THEN /\ ret' = LoggerThrew("v3", NotSetError)
            /\ UNCHANGED sinks
       ELSE /\ IF ToNumber(verbose) >= 3
               THEN /\ Len(sinks[diagStream]) < MaxSink
                    /\ sinks' = Written(commonOut("V3", <<msg>>, options,
                                                 <<Frame(LibFile, 357)>> \o stk))
               ELSE UNCHANGED sinks
            /\ ret' = [LoggerReturned("v3", Undefined) EXCEPT !.arg = options]
    /\ UNCHANGED <<verbose, debugTags, diagStream, verboseSet, restore, statusVars, dedupVars, frameVars, optionVars>>

\* ifVerbose(msg, options): lvl <= this.verbose is false when this.verbose
\* is undefined; the l.ifDebug call of line 374 writes nothing
ifVerbose(msg, options, stk) ==
    /\ LET lvl == Coalesce(options.level, Num(1))
       IN IF verbose # Undefined /\ lvl.v <= ToNumber(verbose)
          THEN /\ Len(sinks[diagStream]) < MaxSink
               /\ sinks' = Written(commonOut("V" \o ToString(lvl.v), <<msg>>, options,
                                            <<Frame(LibFile, 376)>> \o stk))
          ELSE UNCHANGED sinks
    /\ ret' = [LoggerReturned("ifVerbose", Undefined) EXCEPT !.arg = options]
    /\ UNCHANGED <<verbose, debugTags, diagStream, verboseSet, restore, statusVars, dedupVars, frameVars, optionVars>>

\* the lines setDebug writes for the tags, in order: info() called with
\* extraFrames = numFramesInThisModule(); caller is the stack in setDebug
RECURSIVE EnabledLines(_, _)
EnabledLines(tags, caller) ==
    IF tags = <<>> THEN <<>>
    ELSE LET n == numFramesInThisModule(<<Frame(LibFile, 27)>> \o caller)
             out == commonOut("INFO", <<Str(Head(tags) \o " debugging enabled")>>,
                              Options(Num(n), Undefined, Undefined),
                              <<Frame(LibFile, 401)>> \o caller)
         IN <<out.line \o "\n">> \o EnabledLines(Tail(tags), caller)

Range(seq) == {seq[i] : i \in 1..Len(seq)}

\* setDebug(tagsOrBool): true, false, one tag, or a list of tags
setDebugTags(tagsOrBool) ==
    CASE tagsOrBool.t = "boolean" -> IF tagsOrBool.v THEN <<"*">> ELSE <<>>
      [] tagsOrBool.t = "string" -> <<tagsOrBool.v>>
      [] tagsOrBool.t = "array" -> tagsOrBool.v

\* a variant of setDebug in which false leaves the enabled tags in place
setDebug_keep(tagsOrBool, stk) ==
    /\ LET tags == setDebugTags(tagsOrBool)
       IN /\ Len(sinks[diagStream]) + Len(tags) <= MaxSink
          /\ debugTags' = debugTags \cup Range(tags)
          /\ sinks' = [sinks EXCEPT ![diagStream] =
                 @ \o EnabledLines(tags, <<Frame(LibFile, 202)>> \o stk)]
    /\ ret' = [LoggerReturned("setDebug", Undefined) EXCEPT !.arg = tagsOrBool]
    /\ UNCHANGED <<verbose, diagStream, verboseSet, restore, statusVars, dedupVars, frameVars, optionVars>>

setDebug(tagsOrBool, stk) ==
    /\ LET tags == setDebugTags(tagsOrBool)
           base == IF tagsOrBool = Bool(FALSE) THEN {} ELSE debugTags
       IN /\ Len(sinks[diagStream]) + Len(tags) <= MaxSink
          /\ debugTags' = base \cup Range(tags)
          /\ sinks' = [sinks EXCEPT ![diagStream] =
                 @ \o EnabledLines(tags, <<Frame(LibFile, 202)>> \o stk)]
    /\ ret' = [LoggerReturned("setDebug", Undefined) EXCEPT !.arg = tagsOrBool]
    /\ UNCHANGED <<verbose, diagStream, verboseSet, restore, statusVars, dedupVars, frameVars, optionVars>>

\* the property names every Set has, own or inherited
SetProps == {"size", "has", "add", "delete", "clear", "forEach", "keys", "values",
             "entries", "constructor", "toString", "hasOwnProperty"}

\* a variant of isSetDebug that asks the set for its members
isSetDebug_has(tag) ==
    /\ ret' = [LoggerReturned("isSetDebug",
                   Bool(IF tag # Null THEN tag.v \in debugTags ELSE debugTags # {}))
                 EXCEPT !.arg = tag]
    /\ UNCHANGED <<loggerVars, statusVars, dedupVars, frameVars, optionVars>>

\* isSetDebug(tag): tag is Null when none is given.  'tag in this.debugTags'
\* asks whether the Set object has a property of that name, and a Set has
\* no isEmpty function.
isSetDebug(tag) ==
    /\ ret' = [IF tag # Null
               THEN LoggerReturned("isSetDebug", Bool(tag.v \in SetProps))
               ELSE LoggerThrew("isSetDebug",
                        "TypeError: this.debugTags.isEmpty is not a function")
                 EXCEPT !.arg = tag]
    /\ UNCHANGED <<loggerVars, statusVars, dedupVars, frameVars, optionVars>>

\* an Options object that carries a tag
WithTag(options, tag) ==
    [extraFrames |-> options.extraFrames, asString |-> options.asString,
     level |-> options.level, tag |-> tag]

\* this.debugTags.has(tag) || this.debugTags.has('*'), without the wildcard
debugEnabled_exact(tag) == tag \in debugTags
debugEnabled(tag) == tag \in debugTags \/ "*" \in debugTags

\* ifDebug(msg, options): the tag is '*' unless the options carry one; the
\* result of commonOut is not returned
ifDebug(msg, options, stk) ==
    /\ LET tag == IF "tag" \in DOMAIN options THEN options.tag ELSE Str("*")
       IN IF ~isString(tag)
          THEN /\ ret' = [LoggerThrew("ifDebug", "Error: Tag must be a string, but is ")
                             EXCEPT !.arg = options]
               /\ UNCHANGED sinks
          ELSE /\ IF debugEnabled(tag.v)
                  THEN LET tagAdorn == IF tag.v # "*" THEN "[" \o tag.v \o "]" ELSE ""
                       IN /\ Len(sinks[diagStream]) < MaxSink
                          /\ sinks' = Written(commonOut("DEBUG" \o tagAdorn, <<msg>>, options,
                                                  <<Frame(LibFile, 314)>> \o stk))
                  ELSE UNCHANGED sinks
               /\ ret' = [LoggerReturned("ifDebug", Undefined) EXCEPT !.arg = options]
    /\ UNCHANGED <<verbose, debugTags, diagStream, verboseSet, restore, statusVars, dedupVars, frameVars, optionVars>>

\* setFromArgs(args): args is an object with the fields verbose, dashVerbose
\* ('--verbose'), debug and dashDebug ('--debug'), and get: Absent, or what
\* its get function returns for '--verbose' and for '--debug'
ArgsObj(v, dv, d, dd) ==
    [verbose |-> v, dashVerbose |-> dv, debug |-> d, dashDebug |-> dd, get |-> Absent]
ArgsMap(gv, gd) ==
    [verbose |-> Undefined, dashVerbose |-> Undefined, debug |-> Undefined,
     dashDebug |-> Undefined, get |-> [verbose |-> gv, debug |-> gd]]

\* str.split(','), from position i on with the part read so far
RECURSIVE splitAt(_, _, _)
splitAt(str, i, cur) ==
    IF i > Len(str) THEN <<cur>>
    ELSE IF SubSeq(str, i, i) = "," THEN <<cur>> \o splitAt(str, i + 1, "")
    ELSE splitAt(str, i + 1, cur \o SubSeq(str, i, i))
split(str) == splitAt(str, 1, "")

\* the parts of the elements of a sequence of strings, in order
RECURSIVE splitAll(_)
splitAll(strs) == IF strs = <<>> THEN <<>> ELSE split(Head(strs)) \o splitAll(Tail(strs))

\* a variant of argsDebugTags that takes a string as one element
argsDebugTags_whole(debug) ==
    IF debug.t = "array" THEN splitAll(debug.v)
    ELSE IF debug.t = "string" THEN split(debug.v)
    ELSE IF Truthy(debug) THEN <<"*">> ELSE <<>>

\* the tags setFromArgs collects: for (let tag of debug) takes the elements
\* of a list and the characters of a string; a value that is not iterable
\* counts as true or false
argsDebugTags(debug) ==
    IF debug.t = "array" THEN splitAll(debug.v)
    ELSE IF debug.t = "string"
    THEN splitAll([i \in 1..Len(debug.v) |-> SubSeq(debug.v, i, i)])
    ELSE IF Truthy(debug) THEN <<"*">> ELSE <<>>

\* x | 0 for the values that reach it
ToInt32(v) == IF v.t \in {"undefined", "null"} THEN 0 ELSE ToNumber(v)

\* a variant of argsVerbose that converts every value to a number
argsVerbose_number(v0) ==
    IF v0.t = "array" THEN Num(Len(v0.v)) ELSE Num(ToInt32(v0))

\* (typeof verbose == 'object' ? verbose.length : verbose) ?? verbose | 0,
\* in which | binds tighter than ??
argsVerbose(v0) ==
    Coalesce(IF v0.t = "array" THEN Num(Len(v0.v)) ELSE v0, Num(ToInt32(v0)))

setFromArgs(args, stk) ==
    LET v0 == Coalesce(args.verbose, Coalesce(args.dashVerbose,
                  IF args.get # Absent THEN args.get.verbose ELSE Num(0)))
        debug == Coalesce(args.debug, Coalesce(args.dashDebug,
                  IF args.get # Absent THEN args.get.debug ELSE Bool(FALSE)))
        tags == argsDebugTags(debug)
    IN IF v0 = Null
       THEN /\ ret' = [LoggerThrew("setFromArgs",
                           "TypeError: Cannot read properties of null (reading 'length')")
                        EXCEPT !.arg = args]
            /\ UNCHANGED <<loggerVars, statusVars, dedupVars, frameVars, optionVars>>
       ELSE /\ verbose' = argsVerbose(v0)
            /\ Len(sinks[diagStream]) + Len(tags) <= MaxSink
            /\ debugTags' = debugTags \cup Range(tags)
            /\ sinks' = [sinks EXCEPT ![diagStream] =
                   @ \o EnabledLines(tags, <<Frame(LibFile, 202), Frame(LibFile, 244)>> \o stk)]
            /\ verboseSet' = "setFromArgs"
            /\ ret' = [LoggerReturned("setFromArgs", Undefined) EXCEPT !.arg = args]
            /\ UNCHANGED <<diagStream, restore, statusVars, dedupVars, frameVars, optionVars>>

\* debug, info, warn, error and err return what commonOut returns: the line
\* when asString is set, else undefined after the line was written
logDebug(parts, options, stk) ==
    /\ LET out == commonOut("DEBUG", parts, options, <<Frame(LibFile, 390)>> \o stk)
       IN /\ out.asString \/ Len(sinks[diagStream]) < MaxSink
          /\ sinks' = Written(out)
          /\ ret' = [LoggerReturned("debug", IF out.asString THEN Str(out.line) ELSE Undefined)
                        EXCEPT !.arg = options]
    /\ UNCHANGED <<verbose, debugTags, diagStream, verboseSet, restore, statusVars, dedupVars, frameVars, optionVars>>

logInfo(parts, options, stk) ==
    /\ LET out == commonOut("INFO", parts, options, <<Frame(LibFile, 401)>> \o stk)
       IN /\ out.asString \/ Len(sinks[diagStream]) < MaxSink
          /\ sinks' = Written(out)
          /\ ret' = [LoggerReturned("info", IF out.asString THEN Str(out.line) ELSE Undefined)
                        EXCEPT !.arg = options]
    /\ UNCHANGED <<verbose, debugTags, diagStream, verboseSet, restore, statusVars, dedupVars, frameVars, optionVars>>

logWarn(parts, options, stk) ==
    /\ LET out == commonOut("WARN", parts, options, <<Frame(LibFile, 412)>> \o stk)
       IN /\ out.asString \/ Len(sinks[diagStream]) < MaxSink
          /\ sinks' = Written(out)
          /\ ret' = [LoggerReturned("warn", IF out.asString THEN Str(out.line) ELSE Undefined)
                        EXCEPT !.arg = options]
    /\ UNCHANGED <<verbose, debugTags, diagStream, verboseSet, restore, statusVars, dedupVars, frameVars, optionVars>>

logError(parts, options, stk) ==
    /\ LET out == commonOut("ERROR", parts, options, <<Frame(LibFile, 423)>> \o stk)
       IN /\ out.asString \/ Len(sinks[diagStream]) < MaxSink
          /\ sinks' = Written(out)
          /\ ret' = [LoggerReturned("error", IF out.asString THEN Str(out.line) ELSE Undefined)
                        EXCEPT !.arg = options]
    /\ UNCHANGED <<verbose, debugTags, diagStream, verboseSet, restore, statusVars, dedupVars, frameVars, optionVars>>

logErr(parts, options, stk) ==
    /\ LET out == commonOut("ERROR", parts, options, <<Frame(LibFile, 426)>> \o stk)
       IN /\ out.asString \/ Len(sinks[diagStream]) < MaxSink
          /\ sinks' = Written(out)
          /\ ret' = [LoggerReturned("err", IF out.asString THEN Str(out.line) ELSE Undefined)
                        EXCEPT !.arg = options]
    /\ UNCHANGED <<verbose, debugTags, diagStream, verboseSet, restore, statusVars, dedupVars, frameVars, optionVars>>

\* announceMyself(asString): info() with extraFrames 1; argv is process.argv
\* joined with ' '
argv == "node demo.mjs"

announceMyself(asString, stk) ==
    /\ LET out == commonOut("INFO", <<Str("called as: "), Str(argv)>>,
                            Options(Num(1), asString, Undefined),
                            <<Frame(LibFile, 401), Frame(LibFile, 284)>> \o stk)
       IN /\ out.asString \/ Len(sinks[diagStream]) < MaxSink
          /\ sinks' = Written(out)
          /\ ret' = [LoggerReturned("announceMyself",
                                    IF out.asString THEN Str(out.line) ELSE Undefined)
                        EXCEPT !.arg = asString]
    /\ UNCHANGED <<verbose, debugTags, diagStream, verboseSet, restore, statusVars, dedupVars, frameVars, optionVars>>

\* user code: let restore = l.diagStream; l.diagStream = new PassThrough()
assignBuffer ==
    /\ restore = "none"
    /\ restore' = diagStream
    /\ diagStream' = "buff"
    /\ sinks' = [sinks EXCEPT !["buff"] = <<>>]
    /\ ret' = LoggerReturned("diagStream=", Undefined)
    /\ UNCHANGED <<verbose, debugTags, verboseSet, statusVars, dedupVars, frameVars, optionVars>>

\* user code: l.diagStream = restore
assignRestore ==
    /\ restore # "none"
    /\ diagStream' = restore
    /\ restore' = "none"
    /\ ret' = LoggerReturned("diagStream=", Undefined)
    /\ UNCHANGED <<sinks, verbose, debugTags, verboseSet, statusVars, dedupVars, frameVars, optionVars>>

(***************************************************************************)
(* AppStatus.log, which writes through the logger, and the Options object  *)
(* user code keeps.                                                        *)
(***************************************************************************)
\* log(logger, ...msg): prefix is the message in msg or Undefined, options
\* the Options that end msg or, when there are none, the new Options
\* getOptions makes.  The lines of the logger calls it makes, in order.
\* a variant of logLines that calls the logger for the empty tiers too
logLines_always(s, prefix, options, stk) ==
    LET opts == addFrames(options, 1)
        prepend == IF prefix # Undefined THEN makeASCII(prefix) \o ": " ELSE ""
        e == commonOut("ERROR", <<Str(prepend), Str(errorMsg(s))>>, opts,
                       <<Frame(LibFile, 423), Frame(LibFile, 714)>> \o stk)
        w == commonOut("WARN", <<Str(prepend), Str(warnMsg(s))>>, opts,
                       <<Frame(LibFile, 412), Frame(LibFile, 716)>> \o stk)
        i == commonOut("INFO", <<Str(prepend), Str(infoMsg(s))>>, opts,
                       <<Frame(LibFile, 401), Frame(LibFile, 718)>> \o stk)
    IN <<e, w, i>>

logLines(s, prefix, options, stk) ==
    LET opts == addFrames(options, 1)
        prepend == IF prefix # Undefined THEN makeASCII(prefix) \o ": " ELSE ""
        e == commonOut("ERROR", <<Str(prepend), Str(errorMsg(s))>>, opts,
                       <<Frame(LibFile, 423), Frame(LibFile, 714)>> \o stk)
        w == commonOut("WARN", <<Str(prepend), Str(warnMsg(s))>>, opts,
                       <<Frame(LibFile, 412), Frame(LibFile, 716)>> \o stk)
        i == commonOut("INFO", <<Str(prepend), Str(infoMsg(s))>>, opts,
                       <<Frame(LibFile, 401), Frame(LibFile, 718)>> \o stk)
    IN (IF hasErrors(s) THEN <<e>> ELSE <<>>)
       \o (IF hasWarnings(s) THEN <<w>> ELSE <<>>)
       \o (IF hasInfo(s) THEN <<i>> ELSE <<>>)

log(s, prefix, options, stk) ==
    /\ LET outs == logLines(s, prefix, Deref(options), stk)
           written == SelectSeq(outs, LAMBDA out : ~ out.asString)
       IN /\ Len(sinks[diagStream]) + Len(written) <= MaxLogged
          /\ HeldRoom(options)
          /\ sinks' = [sinks EXCEPT ![diagStream] =
                           @ \o [k \in 1..Len(written) |-> written[k].line \o "\n"]]
    /\ held' = addFramesTo(options, 1)
    /\ ret' = [Returned("log", s, Undefined)
                 EXCEPT !.arg = [prefix |-> prefix, options |-> options]]
    /\ UNCHANGED <<verbose, debugTags, diagStream, verboseSet, restore, statusVars, dedupVars, frameVars>>

\* o = new Options(aDict) in user code: the variable holds a new object
NewOptions(aDict) ==
    /\ held' = aDict
    /\ ret' = [Returned("newOptions", "none", Undefined) EXCEPT !.arg = aDict]
    /\ UNCHANGED <<statusVars, loggerVars, dedupVars, frameVars>>

(***************************************************************************)
(* adorn() and numFramesInThisModule() called from user code on the call   *)
(* stack of the state.                                                     *)
(***************************************************************************)
callAdorn(msg, options) ==
    /\ ret' = [Returned("adorn", "none",
                   Str(adorn(<<msg>>, options, <<Frame(LibFile, 123)>> \o stack)))
                 EXCEPT !.arg = options]
    /\ UNCHANGED <<stack, statusVars, loggerVars, dedupVars, optionVars>>

callNumFramesInThisModule ==
    /\ ret' = Returned("numFramesInThisModule", "none",
                  Num(numFramesInThisModule(<<Frame(LibFile, 27)>> \o stack)))
    /\ UNCHANGED <<stack, statusVars, loggerVars, dedupVars, optionVars>>

(***************************************************************************)
(* dedup() applied to a list of its own.                                   *)
(***************************************************************************)
Texts == {"x", "y", "x (x2)"}

dedupList ==
    /\ dedups < MaxDedups
    /\ list' = dedup(list)
    /\ dedups' = dedups + 1
    /\ ret' = Returned("dedup", "list", Undefined)
    /\ UNCHANGED <<listIn, statusVars, loggerVars, frameVars, optionVars>>

(***************************************************************************)
(* Initial states.                                                         *)
(***************************************************************************)
\* two statuses made by new AppStatus()
InitStatus ==
    /\ status = [s \in AllStatuses |->
          [info |-> IF s = "A" THEN 1 ELSE IF s = "B" THEN 4 ELSE 7,
           warnings |-> IF s = "A" THEN 2 ELSE IF s = "B" THEN 5 ELSE 8,
           errors |-> IF s = "A" THEN 3 ELSE IF s = "B" THEN 6 ELSE 9,
           lastError |-> "", value |-> Undefined, attrs |-> EmptyAttrs]]
    /\ heap = [r \in Refs |-> <<>>]
    /\ lastSet = [s \in AllStatuses |-> Undefined]
    /\ cleared = FALSE
    /\ held = EmptyOptions

\* a logger made by new AppLogger('demo', {verbose: 3, debug: true})
InitVerboseLogger ==
    /\ verbose = Num(3)
    /\ debugTags = {"*"}
    /\ diagStream = "stderr"
    /\ sinks = [k \in Sinks |-> <<>>]
    /\ restore = "none"
    /\ verboseSet = "option"

\* a logger made by new AppLogger('demo'), VERBOSE not in the environment
InitLogger ==
    /\ verbose = Undefined
    /\ debugTags = {}
    /\ diagStream = "stderr"
    /\ sinks = [k \in Sinks |-> <<>>]
    /\ restore = "none"
    /\ verboseSet = "never"

InitList(lists) ==
    /\ list \in lists
    /\ listIn = list
    /\ dedups = 0

NoCall == Returned("none", "none", Undefined)

\* The calls the user code makes: each status variable is worked on from its
\* own place in the user code, with its own message, value and field value.
Calls == { [s |-> "A", msg |-> Str("x"), val |-> Num(1), attr |-> Str("bar"),
            stk |-> <<Frame(DemoFile, 10), Frame(DemoFile, 5)>>],
           [s |-> "B", msg |-> Str("y"), val |-> Num(2), attr |-> Str("baz"),
            stk |-> <<Frame(DemoFile, 20), Frame(DemoFile, 5)>>] }

(***************************************************************************)
(* Spec: the diagnostics of two statuses.                                  *)
(***************************************************************************)
Init == InitStatus /\ InitLogger /\ InitList({<<>>}) /\ stack = <<>> /\ ret = NoCall

Next ==
    \/ \E c \in Calls, withMsg \in BOOLEAN :
          NewAppStatus(c.s, IF withMsg THEN c.msg ELSE Undefined, EmptyOptions, c.stk)
    \/ \E c \in Calls : addInfo(c.s, c.msg, EmptyOptions, c.stk)
    \/ \E c \in Calls : addWarning(c.s, c.msg, EmptyOptions, c.stk)
    \/ \E c \in Calls : addError(c.s, c.msg, EmptyOptions, c.stk)
    \/ \E s \in Statuses : \E other \in Statuses \ {s} : addStatus(s, other)
    \/ \E s \in Statuses : addValue(s, Num(1))
    \/ \E s \in Statuses : clearErrors(s)
    \/ \E s \in Statuses : clearWarnings(s)
    \/ \E s \in Statuses : clearInfo(s)
    \/ \E s \in Statuses : dedupInfo(s)

Spec == Init /\ [][Next]_vars

(***************************************************************************)
(* SpecValue: the value of a status and the errors that guard it.          *)
(***************************************************************************)
NextValue ==
    \/ \E c \in Calls, withMsg \in BOOLEAN :
          NewAppStatus(c.s, IF withMsg THEN c.msg ELSE Undefined, EmptyOptions, c.stk)
    \/ \E c \in Calls : addError(c.s, c.msg, EmptyOptions, c.stk)
    \/ \E c \in Calls : \E val \in {c.val, Undefined} : addValue(c.s, val)
    \/ \E s \in Statuses : \E other \in Statuses \ {s} : addStatus(s, other)
    \/ \E s \in Statuses : clearErrors(s)
    \/ \E s \in Statuses : getValue(s)

SpecValue == Init /\ [][NextValue]_vars

(***************************************************************************)
(* SpecMerge: what addStatus does with values, extra fields, and arguments *)
(* that are not statuses.                                                  *)
(***************************************************************************)
NextMerge ==
    \/ \E c \in Calls : NewAppStatus(c.s, Undefined, EmptyOptions, c.stk)
    \/ \E c \in Calls : \E val \in {c.val, Undefined} : addValue(c.s, val)
    \/ \E c \in Calls, name \in AttrNames : setAttr(c.s, name, c.attr)
    \/ \E s \in Statuses : \E other \in Statuses : addStatus(s, other)
    \/ \E s \in Statuses, other \in NotAppStatus : addStatusOf(s, other)

SpecMerge == Init /\ [][NextMerge]_vars

(***************************************************************************)
(* SpecDedup: dedup() on the lists of up to MaxListLen texts, and          *)
(* dedupInfo() on the statuses.                                            *)
(***************************************************************************)
ListsUpTo(n) == UNION {[1..k -> Texts] : k \in 0..n}

InitDedup ==
    InitStatus /\ InitLogger /\ InitList(ListsUpTo(MaxListLen)) /\ stack = <<>> /\ ret = NoCall

NextDedup ==
    \/ dedupList
    \/ \E c \in Calls : addInfo(c.s, c.msg, EmptyOptions, c.stk)
    \/ \E s \in Statuses : dedupInfo(s)
    \/ \E s \in Statuses : clearInfo(s)

SpecDedup == InitDedup /\ [][NextDedup]_vars

(***************************************************************************)
(* SpecLogger: the verbosity gate of a logger.                             *)
(***************************************************************************)
LoggerOptions == {Undefined} \cup
    {[verbose |-> v, debug |-> d] : v \in {Undefined, Num(0), Num(2)},
                                    d \in {Undefined, Bool(TRUE)}}
EnvVERBOSE == {Undefined, Str("1")}
Verbosities == {Num(n) : n \in 0..3}
ArgsObjs == { ArgsObj(Num(1), Undefined, Undefined, Undefined),
              ArgsObj(Undefined, List(<<Bool(TRUE), Bool(TRUE)>>), Undefined, Bool(TRUE)),
              ArgsObj(Undefined, Undefined, List(<<"db">>), Undefined) }
DebugArgs == {Bool(TRUE), Bool(FALSE), Str("db"), List(<<"db", "*">>)}
IfVerboseOptions == {EmptyOptions, Options(Undefined, Undefined, Num(2))}

NextLogger ==
    \/ \E options \in LoggerOptions, env \in EnvVERBOSE : NewAppLogger(options, 0, env)
    \/ \E val \in Verbosities : setVerbose(val)
    \/ \E val \in Verbosities : assignVerbose(val)
    \/ \E args \in ArgsObjs : setFromArgs(args, LoggerStack)
    \/ \E tagsOrBool \in DebugArgs : setDebug(tagsOrBool, LoggerStack)
    \/ v1(LogMsg, EmptyOptions, LoggerStack)
    \/ v2(LogMsg, EmptyOptions, LoggerStack)
    \/ v3(LogMsg, EmptyOptions, LoggerStack)
    \/ \E options \in IfVerboseOptions : ifVerbose(LogMsg, options, LoggerStack)

SpecLogger == Init /\ [][NextLogger]_vars

(***************************************************************************)
(* SpecDebug: the debug tags of a logger and the calls they gate.          *)
(***************************************************************************)
IfDebugOptions == {EmptyOptions} \cup
    {WithTag(EmptyOptions, tag) : tag \in {Str("*"), Str("db"), Str("net"), Num(5)}}

NextDebug ==
    \/ \E options \in LoggerOptions, env \in EnvVERBOSE : NewAppLogger(options, 0, env)
    \/ \E tagsOrBool \in DebugArgs : setDebug(tagsOrBool, LoggerStack)
    \/ \E args \in ArgsObjs : setFromArgs(args, LoggerStack)
    \/ \E options \in IfDebugOptions : ifDebug(LogMsg, options, LoggerStack)

SpecDebug == Init /\ [][NextDebug]_vars

(***************************************************************************)
(* SpecOut: the lines of the unconditional logging calls, and the sink     *)
(* they go to while the caller substitutes a buffer for it.  The caller    *)
(* logs 'c' while its buffer is assigned and 'n=', 5 otherwise.            *)
(***************************************************************************)
OutOptions == {EmptyOptions, Options(Undefined, Bool(TRUE), Undefined),
               Options(Undefined, Bool(FALSE), Undefined)}
OutParts == IF restore = "none" THEN <<Str("n="), Num(5)>> ELSE <<Str("c")>>

NextOut ==
    \/ \E options \in OutOptions : logDebug(OutParts, options, LoggerStack)
    \/ \E options \in OutOptions : logInfo(OutParts, options, LoggerStack)
    \/ \E options \in OutOptions : logWarn(OutParts, options, LoggerStack)
    \/ \E options \in OutOptions : logError(OutParts, options, LoggerStack)
    \/ \E options \in OutOptions : logErr(OutParts, options, LoggerStack)
    \/ assignBuffer
    \/ assignRestore

SpecOut == Init /\ [][NextOut]_vars

(***************************************************************************)
(* SpecFrames: adorn() and numFramesInThisModule() on every call stack of  *)
(* up to MaxDepth frames; the frame at position i is at line 10 * i.       *)
(***************************************************************************)
TestFile == <<"app_error", "test", "test.mjs">>
ToolsFile == <<"app_error", "tools", "index.js">>
Files == {DemoFile, TestFile, ToolsFile}

Stacks(n) ==
    UNION {{[i \in 1..d |-> Frame(f[i], 10 * i)] : f \in [1..d -> Files]} : d \in 0..n}

AdornOptions == {EmptyOptions} \cup {Options(Num(k), Undefined, Undefined) : k \in 0..MaxExtra}

InitFrames ==
    /\ InitStatus /\ InitLogger /\ InitList({<<>>})
    /\ stack \in Stacks(MaxDepth)
    /\ ret = NoCall

NextFrames ==
    \/ \E options \in AdornOptions : callAdorn(LogMsg, options)
    \/ callNumFramesInThisModule

SpecFrames == InitFrames /\ [][NextFrames]_vars

(***************************************************************************)
(* SpecStamp: the call site stamped on the entries of a status.  The calls *)
(* are made two functions deep in the demo, which the test file calls.     *)
(***************************************************************************)
StampOptions == {EmptyOptions} \cup {Options(Num(k), Undefined, Undefined) : k \in 0..2}
StampStack(c) == c.stk \o <<Frame(TestFile, 1)>>

NextStamp ==
    \/ \E c \in Calls, options \in StampOptions, withMsg \in BOOLEAN :
          NewAppStatus(c.s, IF withMsg THEN c.msg ELSE Undefined, options, StampStack(c))
    \/ \E c \in Calls, options \in StampOptions : NewAppError(c.s, c.msg, options, StampStack(c))
    \/ \E c \in Calls, options \in StampOptions : addInfo(c.s, c.msg, options, StampStack(c))
    \/ \E c \in Calls, options \in StampOptions : addWarning(c.s, c.msg, options, StampStack(c))
    \/ \E c \in Calls, options \in StampOptions : addWarn(c.s, c.msg, options, StampStack(c))
    \/ \E c \in Calls, options \in StampOptions : addError(c.s, c.msg, options, StampStack(c))

SpecStamp == Init /\ [][NextStamp]_vars

(***************************************************************************)
(* SpecSite: the location cited by the lines of a logger on which every    *)
(* gate passes.  The calls are made in the demo function the test file     *)
(* calls (line 30), in a helper it calls (line 41) and in a helper of that *)
(* helper (line 42), with or without extraFrames.                          *)
(***************************************************************************)
DirectStack == <<Frame(DemoFile, 30), Frame(DemoFile, 5), Frame(TestFile, 1)>>
HelperStack == <<Frame(DemoFile, 41)>> \o DirectStack
DeepStack == <<Frame(DemoFile, 42)>> \o HelperStack
SiteStacks == {DirectStack, HelperStack, DeepStack}

Sites == { [stk |-> DirectStack, options |-> EmptyOptions],
           [stk |-> DirectStack, options |-> Options(Num(1), Undefined, Undefined)],
           [stk |-> HelperStack, options |-> EmptyOptions],
           [stk |-> HelperStack, options |-> Options(Num(1), Undefined, Undefined)],
           [stk |-> DeepStack, options |-> Options(Num(2), Undefined, Undefined)] }

InitSite ==
    InitStatus /\ InitVerboseLogger /\ InitList({<<>>}) /\ stack = <<>> /\ ret = NoCall

NextSite ==
    \/ \E site \in Sites : logDebug(<<LogMsg>>, site.options, site.stk)
    \/ \E site \in Sites : logInfo(<<LogMsg>>, site.options, site.stk)
    \/ \E site \in Sites : logWarn(<<LogMsg>>, site.options, site.stk)
    \/ \E site \in Sites : logError(<<LogMsg>>, site.options, site.stk)
    \/ \E site \in Sites : v1(LogMsg, site.options, site.stk)
    \/ \E site \in Sites : v2(LogMsg, site.options, site.stk)
    \/ \E site \in Sites : v3(LogMsg, site.options, site.stk)
    \/ \E site \in Sites : ifVerbose(LogMsg, site.options, site.stk)
    \/ \E site \in Sites : ifDebug(LogMsg, site.options, site.stk)
    \/ \E stk \in SiteStacks : announceMyself(Bool(FALSE), stk)
    \/ \E stk \in SiteStacks : setDebug(Str("db"), stk)
    \/ \E stk \in SiteStacks : setFromArgs(ArgsObj(Num(3), Undefined, List(<<"db">>), Undefined), stk)

SpecSite == InitSite /\ [][NextSite]_vars

(***************************************************************************)
(* SpecRender: what one status reports of itself: its extra attributes     *)
(* and its printable form.                                                 *)
(***************************************************************************)
RenderCalls == { [s |-> "R", msg |-> Str("x"), val |-> Num(1), attr |-> Str("bar"),
                  stk |-> <<Frame(DemoFile, 10), Frame(DemoFile, 5)>>],
                 [s |-> "R", msg |-> Str("y"), val |-> Num(1), attr |-> Str("bar"),
                  stk |-> <<Frame(DemoFile, 11), Frame(DemoFile, 5)>>] }

NextRender ==
    \/ \E c \in RenderCalls, withMsg \in BOOLEAN :
          NewAppStatus(c.s, IF withMsg THEN c.msg ELSE Undefined, EmptyOptions, c.stk)
    \/ \E c \in RenderCalls : addInfo(c.s, c.msg, EmptyOptions, c.stk)
    \/ \E c \in RenderCalls : addWarning(c.s, c.msg, EmptyOptions, c.stk)
    \/ \E c \in RenderCalls : addError(c.s, c.msg, EmptyOptions, c.stk)
    \/ \E c \in RenderCalls : \E val \in {c.val, Undefined} : addValue(c.s, val)
    \/ \E c \in RenderCalls, name \in AttrNames : setAttr(c.s, name, c.attr)
    \/ \E c \in RenderCalls : callGetExtraAttrs(c.s)
    \/ \E c \in RenderCalls : callToString(c.s)

SpecRender == Init /\ [][NextRender]_vars

(***************************************************************************)
(* SpecLog: a status logged through the logger, with and without a prefix, *)
(* from line 12 of the demo.                                               *)
(***************************************************************************)
LogCalls == {c \in RenderCalls : c.msg = Str("x")}
LogStack == <<Frame(DemoFile, 12), Frame(DemoFile, 5), Frame(TestFile, 1)>>
LogPrefixes == {Undefined, Str("p")}

NextLog ==
    \/ \E c \in LogCalls : addInfo(c.s, c.msg, EmptyOptions, c.stk)
    \/ \E c \in LogCalls : addWarning(c.s, c.msg, EmptyOptions, c.stk)
    \/ \E c \in LogCalls : addError(c.s, c.msg, EmptyOptions, c.stk)
    \/ \E c \in LogCalls, prefix \in LogPrefixes : log(c.s, prefix, EmptyOptions, LogStack)

SpecLog == Init /\ [][NextLog]_vars

(***************************************************************************)
(* SpecConstruct: loggers made with well-formed and with malformed         *)
(* arguments, and used.                                                    *)
(***************************************************************************)
SecondArgs == LoggerOptions \cup {Num(0), Str("2"), Bool(TRUE), Null}

NextConstruct ==
    \/ \E options \in SecondArgs, more \in 0..1, env \in EnvVERBOSE :
          NewAppLogger(options, more, env)
    \/ v1(LogMsg, EmptyOptions, LoggerStack)
    \/ v2(LogMsg, EmptyOptions, LoggerStack)
    \/ ifDebug(LogMsg, EmptyOptions, LoggerStack)

SpecConstruct == Init /\ [][NextConstruct]_vars

(***************************************************************************)
(* SpecArgs: a logger configured from parsed command line arguments, then  *)
(* used.                                                                   *)
(***************************************************************************)
VerboseArgs == { ArgsObj(Undefined, Undefined, Undefined, Undefined),
                 ArgsObj(Num(1), Undefined, Undefined, Undefined),
                 ArgsObj(Str("2"), Undefined, Undefined, Undefined),
                 ArgsObj(Undefined, Bool(TRUE), Undefined, Undefined),
                 ArgsObj(Undefined, List(<<Bool(TRUE), Bool(TRUE)>>), Undefined, Undefined),
                 ArgsMap(Num(3), Undefined),
                 ArgsMap(Undefined, Undefined),
                 ArgsMap(Null, Undefined) }
TagArgs == { ArgsObj(Undefined, Undefined, List(<<"db,net">>), Undefined),
             ArgsObj(Undefined, Undefined, List(<<"db", "io">>), Undefined),
             ArgsObj(Undefined, Undefined, Str("db"), Undefined),
             ArgsObj(Undefined, Undefined, Str("x"), Undefined),
             ArgsObj(Undefined, Undefined, Undefined, Bool(TRUE)),
             ArgsObj(Undefined, Undefined, Bool(FALSE), Undefined),
             ArgsObj(Undefined, Undefined, Undefined, Num(1)),
             ArgsMap(Undefined, List(<<"net">>)) }

NextArgs ==
    \/ \E args \in VerboseArgs \cup TagArgs : setFromArgs(args, LoggerStack)
    \/ v1(LogMsg, EmptyOptions, LoggerStack)
    \/ v2(LogMsg, EmptyOptions, LoggerStack)
    \/ \E tag \in {"db", "net"} : ifDebug(LogMsg, WithTag(EmptyOptions, Str(tag)), LoggerStack)

SpecArgs == Init /\ [][NextArgs]_vars

(***************************************************************************)
(* SpecQuery: a logger asked which debug tags are enabled on it.           *)
(***************************************************************************)
QueryTags == {Null, Str("*"), Str("db"), Str("net"), Str("size")}

NextQuery ==
    \/ \E tagsOrBool \in DebugArgs : setDebug(tagsOrBool, LoggerStack)
    \/ \E tag \in QueryTags : isSetDebug(tag)
    \/ \E options \in IfDebugOptions : ifDebug(LogMsg, options, LoggerStack)

SpecQuery == Init /\ [][NextQuery]_vars

(***************************************************************************)
(* SpecGated: the gated calls and info() asked for the line as a string,   *)
(* on a logger whose verbosity the caller sets.                            *)
(***************************************************************************)
AsString == Options(Undefined, Bool(TRUE), Undefined)
GatedOptions == {EmptyOptions, AsString}

NextGated ==
    \/ \E val \in Verbosities : setVerbose(val)
    \/ \E options \in GatedOptions : v1(LogMsg, options, LoggerStack)
    \/ \E options \in GatedOptions : v2(LogMsg, options, LoggerStack)
    \/ \E options \in GatedOptions : v3(LogMsg, options, LoggerStack)
    \/ \E options \in GatedOptions : ifVerbose(LogMsg, options, LoggerStack)
    \/ \E options \in GatedOptions : ifDebug(LogMsg, options, LoggerStack)
    \/ \E options \in GatedOptions : logInfo(<<LogMsg>>, options, LoggerStack)

SpecGated == InitSite /\ [][NextGated]_vars

(***************************************************************************)
(* SpecOptions: user code that keeps one Options object in a variable and  *)
(* passes it to call after call; it makes the object before it adds or     *)
(* logs anything.  The calls are made in a function of the                 *)
(* demo (line 42) that a helper calls (line 41), which the demo function   *)
(* called by the test file calls (line 30).                                *)
(***************************************************************************)
OptionDicts == {EmptyOptions, Options(Num(1), Undefined, Undefined)}
OptionCalls == {c \in RenderCalls : c.msg = Str("x")}

NextOptions ==
    \/ \E aDict \in OptionDicts :
          NumEntries("R") = 0 /\ sinks[diagStream] = <<>> /\ NewOptions(aDict)
    \/ \E c \in OptionCalls : addInfo(c.s, c.msg, Held, DeepStack)
    \/ \E c \in OptionCalls : addWarning(c.s, c.msg, Held, DeepStack)
    \/ \E c \in OptionCalls : addError(c.s, c.msg, Held, DeepStack)
    \/ \E c \in OptionCalls : log(c.s, Undefined, Held, DeepStack)

SpecOptions == Init /\ [][NextOptions]_vars

(***************************************************************************)
(* Properties.                                                             *)
(***************************************************************************)
EntryOf(c) == adorn(<<c.msg>>, EmptyOptions, <<Frame(LibFile, 123)>> \o c.stk)
CallOf(s) == CHOOSE c \in Calls : c.s = s
StatusCall(op, s) == ret'.op = op /\ ret'.self = s

\* C1: getValue() throws whenever hasErrors() is true, whether or not a
\* value was set; when the status has no errors (again, after clearErrors)
\* it returns the value last set by addValue or by a merge.
C1_GetValueGuarded ==
    ret.op = "getValue" =>
        IF hasErrors(ret.self) THEN ret.threw
        ELSE ~ ret.threw /\ ret.val = lastSet[ret.self]

\* getValue() returned the value set before the errors were cleared
C1_Witness ==
    /\ ret.op = "getValue" /\ ret.self = "A" /\ ~ ret.threw
    /\ ret.val = Num(1)
    /\ cleared /\ status["A"].lastError # ""

\* C2: once an error was added to a status (addError, construction with a
\* message, addStatus of a status with errors) hasErrors() is true and ok()
\* false until clearErrors (or the variable is assigned a new status), and
\* addInfo, addWarning, addValue, dedupInfo, clearInfo and clearWarnings
\* leave hasErrors() and ok() as they were.
C2_ErrorsUntilCleared ==
    [][\A s \in Statuses :
        /\ StatusCall("addError", s) => hasErrors(s)' /\ ~ ok(s)'
        /\ (StatusCall("new", s) /\ status'[s].lastError # "") => hasErrors(s)' /\ ~ ok(s)'
        /\ (StatusCall("addStatus", s) /\ \E o \in Statuses : ret'.arg = This(o) /\ hasErrors(o))
              => hasErrors(s)' /\ ~ ok(s)'
        /\ (hasErrors(s) /\ ~ StatusCall("clearErrors", s) /\ ~ StatusCall("new", s))
              => hasErrors(s)' /\ ~ ok(s)'
        /\ ret'.op \in {"addInfo", "addWarning", "addValue", "dedupInfo", "clearInfo", "clearWarnings"}
              => (hasErrors(s)' = hasErrors(s)) /\ (ok(s)' = ok(s))
      ]_vars

\* a status with errors on which clearInfo was just called
C2_Witness ==
    /\ ret.op = "clearInfo" /\ ret.self = "A"
    /\ hasErrors("A") /\ ~ ok("A")

\* C3 as stated: the lists are concatenated, and after the merge
\* A.lastError = B.lastError if and only if B had at least one error.
C3_LastErrorIff ==
    [][\A s \in Statuses : \A o \in Statuses \ {s} :
        addStatus(s, o) =>
            /\ errors(s)' = errors(s) \o errors(o)
            /\ warnings(s)' = warnings(s) \o warnings(o)
            /\ info(s)' = info(s) \o info(o)
            /\ (status'[s].lastError = status'[o].lastError) <=> hasErrors(o)
      ]_vars

\* C3, amended: A.addStatus(B) leaves each list of A equal to A's previous
\* entries followed by B's; if B had at least one error then afterwards
\* A.lastError = B.lastError, and if B.lastError is empty A.lastError is
\* left as it was.
C3_MergeOrder ==
    [][\A s \in Statuses : \A o \in Statuses \ {s} :
        addStatus(s, o) =>
            /\ errors(s)' = errors(s) \o errors(o)
            /\ warnings(s)' = warnings(s) \o warnings(o)
            /\ info(s)' = info(s) \o info(o)
            /\ hasErrors(o) => status'[s].lastError = status'[o].lastError
            /\ status[o].lastError = "" => status'[s].lastError = status[s].lastError
      ]_vars

\* A holds its own error followed by the error merged in from B
C3_Witness ==
    /\ ret.op = "addStatus" /\ ret.self = "A" /\ ret.arg = This("B")
    /\ errors("A") = <<EntryOf(CallOf("A")), EntryOf(CallOf("B"))>>
    /\ errors("B") = <<EntryOf(CallOf("B"))>>
    /\ status["A"].lastError = EntryOf(CallOf("B"))

\* what a call on another status must leave alone
View(s) == <<info(s), warnings(s), errors(s), status[s].lastError, status[s].value>>

\* C5: the statuses are independent, also after a merge: a call on one
\* status (addInfo, addWarning, addError, clear*, dedupInfo, addValue, and
\* addStatus itself, whose argument is the other status) leaves the lists,
\* lastError and value of the other status unchanged.
C5_Independent ==
    [][\A s \in Statuses : ret'.self # s => View(s)' = View(s)]_vars

\* A holds the error merged in from B, and B's errors were cleared since
C5_Witness ==
    /\ ret.op = "clearErrors" /\ ret.self = "B"
    /\ errors("B") = <<>>
    /\ errors("A") = <<EntryOf(CallOf("B"))>>

\* C8: as long as clearErrors was never applied, lastError is empty iff the
\* error list is empty; clearErrors empties the error list and leaves
\* lastError at its previous value.
C8_LastErrorStale ==
    /\ [](~ cleared => \A s \in Statuses : (status[s].lastError = "") <=> (errors(s) = <<>>))
    /\ [][\A s \in Statuses :
            StatusCall("clearErrors", s) =>
                errors(s)' = <<>> /\ status'[s].lastError = status[s].lastError]_vars

\* clearErrors left a stale lastError behind
C8_Witness ==
    /\ ret.op = "clearErrors" /\ ret.self = "A"
    /\ errors("A") = <<>>
    /\ status["A"].lastError = EntryOf(CallOf("A"))

\* the fields the user code attached to a status
Attached(s) == {k \in AttrNames : status[s].attrs[k] # Absent}

C6_NotAStatusThrows ==
    (ret.op = "addStatus" /\ ret.arg \in NotAppStatus) => ret.threw

\* the texts of a list in the order of their first occurrence
RECURSIVE Distinct(_)
Distinct(seq) ==
    IF seq = <<>> THEN <<>>
    ELSE LET front == Distinct(SubSeq(seq, 1, Len(seq) - 1))
             last == seq[Len(seq)]
         IN IF last \in Range(front) THEN front ELSE Append(front, last)

Occurrences(seq, text) == Cardinality({i \in 1..Len(seq) : seq[i] = text})

Deduped(seq) ==
    [i \in 1..Len(Distinct(seq)) |->
        LET text == Distinct(seq)[i]
            n == Occurrences(seq, text)
        IN IF n > 1 THEN text \o " (x" \o ToString(n) \o ")" ELSE text]

\* C7: dedup leaves one entry per distinct text, in the order of first
\* occurrence, a text that occurred n > 1 times suffixed with ' (xn)';
\* ["x","x","y"] becomes ["x (x2)","y"], a list of unique texts is
\* unchanged, the empty list stays empty; and dedupInfo() after two addInfo
\* calls of one message from one call site leaves one entry with ' (x2)'.
C7_Dedup ==
    /\ [](dedups = 1 =>
            /\ list = Deduped(listIn)
            /\ Len(list) = Cardinality(Range(listIn))
            /\ listIn = <<"x", "x", "y">> => list = <<"x (x2)", "y">>
            /\ Cardinality(Range(listIn)) = Len(listIn) => list = listIn)
    /\ [][\A c \in Calls :
            (StatusCall("dedupInfo", c.s) /\ info(c.s) = <<EntryOf(c), EntryOf(c)>>)
                => info(c.s)' = <<EntryOf(c) \o " (x2)">>]_vars

\* dedup turned ["x","y","x"] into ["x (x2)","y"]
C7_Witness ==
    /\ ret.op = "dedup" /\ dedups = 1
    /\ listIn = <<"x", "y", "x">>
    /\ list = <<"x (x2)", "y">>

VCalls == {"v1", "v2", "v3"}

C10_IfVerboseThrows ==
    (ret.op = "ifVerbose" /\ verboseSet = "never") => ret.threw

\* the step wrote exactly the chunks to the sink diagStream refers to, and
\* nothing to the other sink
WroteChunks(chunks) ==
    /\ sinks'[diagStream] = sinks[diagStream] \o chunks
    /\ \A k \in Sinks \ {diagStream} : sinks'[k] = sinks[k]

LineAt(lvl, text, line) ==
    component \o ": " \o lvl \o ": demo.mjs:" \o ToString(line) \o ": " \o text \o "\n"

C12_DebugGate ==
    [][\A options \in IfDebugOptions :
         LET tag == IF "tag" \in DOMAIN options THEN options.tag ELSE Str("*")
             label == IF tag.v = "*" THEN "DEBUG" ELSE "DEBUG[" \o tag.v \o "]"
         IN (tag.t = "string" /\ ifDebug(LogMsg, options, LoggerStack)) =>
               /\ ~ret'.threw
               /\ IF "*" \in debugTags \/ tag.v \in debugTags
                  THEN WroteChunks(<<LineAt(label, "m", 30)>>)
                  ELSE sinks' = sinks]_vars

\* with only 'db' enabled, ifDebug tagged 'db' wrote a DEBUG[db] line
C12_Witness ==
    /\ ret.op = "ifDebug" /\ ret.arg = WithTag(EmptyOptions, Str("db"))
    /\ debugTags = {"db"}
    /\ sinks["stderr"] = <<LineAt("INFO", "db debugging enabled", 30),
                           LineAt("DEBUG[db]", "m", 30)>>

\* the INFO lines that announce the tags, in order
RECURSIVE Announced(_)
Announced(tags) ==
    IF tags = <<>> THEN <<>>
    ELSE <<LineAt("INFO", Head(tags) \o " debugging enabled", 30)>> \o Announced(Tail(tags))

\* C13: over any sequence of setDebug calls, setDebug(tag) and
\* setDebug([tags]) add each tag to the enabled set and write one INFO line
\* '<tag> debugging enabled' per tag of the call, in argument order;
\* setDebug(true) enables '*'; setDebug(false) removes every enabled tag and
\* writes nothing, and from then on no ifDebug call writes until a tag is
\* enabled again.
C13_SetDebug ==
    /\ [][/\ setDebug(Bool(TRUE), LoggerStack) =>
               /\ debugTags' = debugTags \cup {"*"}
               /\ WroteChunks(Announced(<<"*">>))
          /\ setDebug(Bool(FALSE), LoggerStack) =>
               /\ debugTags' = {}
               /\ sinks' = sinks
          /\ setDebug(Str("db"), LoggerStack) =>
               /\ debugTags' = debugTags \cup {"db"}
               /\ WroteChunks(Announced(<<"db">>))
          /\ setDebug(List(<<"db", "*">>), LoggerStack) =>
               /\ debugTags' = debugTags \cup {"db", "*"}
               /\ WroteChunks(Announced(<<"db", "*">>))]_vars
    /\ [][(debugTags = {} /\ ret'.op = "ifDebug") => sinks' = sinks]_vars
    /\ [][(debugTags = {} /\ debugTags' # {}) =>
              ret'.op \in {"setDebug", "setFromArgs", "newLogger"}]_vars

\* 'db' and then '*' were enabled, and setDebug(false) removed both
C13_Witness ==
    /\ ret.op = "setDebug" /\ ret.arg = Bool(FALSE)
    /\ debugTags = {}
    /\ sinks["stderr"] = Announced(<<"db", "*">>)

\* the text of the message the caller logs in SpecOut
OutText == IF restore = "none" THEN "n=5" ELSE "c"

\* what a step of an unconditional logging call must do for its level
LineOut(lvl, options) ==
    IF options.asString = Bool(TRUE)
    THEN /\ sinks' = sinks
         /\ ret'.val = Str(component \o ": " \o lvl \o ": demo.mjs:30: " \o OutText)
    ELSE WroteChunks(<<component \o ": " \o lvl \o ": demo.mjs:30: " \o OutText \o "\n">>)

\* C14: every line of info, warn, error/err and debug is component ': '
\* LEVEL ': ' file:line ': ' and the stringified message parts joined with no
\* separator; without asString the call writes that line and a newline to
\* the sink once, with asString true it returns the line and writes nothing.
C14_LineFormat ==
    [][/\ ret'.op = "debug" => LineOut("DEBUG", ret'.arg)
       /\ ret'.op = "info" => LineOut("INFO", ret'.arg)
       /\ ret'.op = "warn" => LineOut("WARN", ret'.arg)
       /\ ret'.op = "error" => LineOut("ERROR", ret'.arg)
       /\ ret'.op = "err" => LineOut("ERROR", ret'.arg)]_vars

\* warn with asString returned its line after info had written one
C14_Witness ==
    /\ ret.op = "warn" /\ ret.val = Str("demo: WARN: demo.mjs:30: n=5")
    /\ sinks["stderr"] = <<"demo: INFO: demo.mjs:30: n=5\n">>

OutLevels == {"DEBUG", "INFO", "WARN", "ERROR"}
OutOps == {"debug", "info", "warn", "error", "err"}
LinesOf(text) ==
    {component \o ": " \o lvl \o ": demo.mjs:30: " \o text \o "\n" : lvl \in OutLevels}

\* C15: each emitting call writes to the sink assigned to diagStream at the
\* moment of the call: while the caller has a buffer assigned the buffer
\* receives the lines logged, in call order, and the original sink none of
\* them; after the caller restored the saved sink every line goes to the
\* original sink only.
C15_SinkAtCall ==
    /\ [](/\ \A i \in 1..Len(sinks["buff"]) : sinks["buff"][i] \in LinesOf("c")
          /\ \A i \in 1..Len(sinks["stderr"]) : sinks["stderr"][i] \in LinesOf("n=5"))
    /\ [][(ret'.op \in OutOps /\ ret'.val = Undefined) =>
             LET to == IF restore = "none" THEN "stderr" ELSE "buff"
             IN /\ Len(sinks'[to]) = Len(sinks[to]) + 1
                /\ SubSeq(sinks'[to], 1, Len(sinks[to])) = sinks[to]
                /\ \A k \in Sinks \ {to} : sinks'[k] = sinks[k]]_vars
    /\ [][(restore # "none" /\ restore' = "none") =>
             (sinks' = sinks /\ diagStream' = "stderr")]_vars

\* the buffer holds the two lines logged while it was assigned, the original
\* sink the line logged after it was restored
C15_Witness ==
    /\ restore = "none" /\ diagStream = "stderr" /\ ret.op = "info"
    /\ sinks["buff"] = <<"demo: INFO: demo.mjs:30: c\n", "demo: WARN: demo.mjs:30: c\n">>
    /\ sinks["stderr"] = <<"demo: INFO: demo.mjs:30: n=5\n">>

\* the name adorn gives a file: its last path component, or its directory
\* when the file is an index file
NameOf(file) ==
    CASE file = DemoFile -> "demo.mjs"
      [] file = TestFile -> "test.mjs"
      [] file = ToolsFile -> "tools"

\* C16: adorn with extraFrames k >= 0 attributes the message to the frame k
\* above its caller when that frame exists, and to the outermost frame of
\* the stack for every k at or beyond the stack depth; it never fails and
\* never yields an undefined location.
C16_AdornClamps ==
    (ret.op = "adorn" /\ stack # <<>>) =>
        LET k == IF ret.arg.extraFrames = Undefined THEN 0 ELSE ret.arg.extraFrames.v
            frame == IF k < Len(stack) THEN stack[k + 1] ELSE stack[Len(stack)]
        IN /\ ~ret.threw
           /\ ret.val = Str(NameOf(frame.file) \o ":" \o ToString(frame.line) \o ": m")

\* on a stack of two frames, extraFrames 4 was clamped to the outermost one
C16_Witness ==
    /\ ret.op = "adorn" /\ ret.arg.extraFrames = Num(4)
    /\ stack = <<Frame(DemoFile, 10), Frame(TestFile, 20)>>
    /\ ret.val = Str("test.mjs:20: m")

StampOf(s, options) ==
    LET c == CallOf(s)
        k == IF options.extraFrames = Undefined THEN 0 ELSE options.extraFrames.v
        site == <<"demo.mjs:" \o ToString(c.stk[1].line), "demo.mjs:5", "test.mjs:1">>
    IN site[k + 1] \o ": " \o c.msg.v

LastOf(seq) == seq[Len(seq)]

SiteLine(site) ==
    CASE site.stk = DirectStack /\ site.options.extraFrames = Undefined -> 30
      [] site.stk = DirectStack /\ site.options.extraFrames = Num(1) -> 5
      [] site.stk = HelperStack /\ site.options.extraFrames = Undefined -> 41
      [] site.stk = HelperStack /\ site.options.extraFrames = Num(1) -> 30
      [] site.stk = DeepStack /\ site.options.extraFrames = Num(2) -> 30

\* C19: for every emitting AppLogger method (info, warn, error, debug, v1,
\* v2, v3, ifVerbose, ifDebug, announceMyself, and the message of setDebug,
\* also when setDebug is reached through setFromArgs) the location in the
\* line is the call site of the method in user code when extraFrames is
\* absent and the frame k above it when the options carry extraFrames = k;
\* helpers at depth 1 and 2 below one call that pass extraFrames 1 and 2
\* both cite the line of that call.
C19_CallSite ==
    /\ [][\A site \in Sites :
            LET ln == SiteLine(site)
            IN /\ logDebug(<<LogMsg>>, site.options, site.stk) =>
                     WroteChunks(<<LineAt("DEBUG", "m", ln)>>)
               /\ logInfo(<<LogMsg>>, site.options, site.stk) =>
                     WroteChunks(<<LineAt("INFO", "m", ln)>>)
               /\ logWarn(<<LogMsg>>, site.options, site.stk) =>
                     WroteChunks(<<LineAt("WARN", "m", ln)>>)
               /\ logError(<<LogMsg>>, site.options, site.stk) =>
                     WroteChunks(<<LineAt("ERROR", "m", ln)>>)
               /\ v1(LogMsg, site.options, site.stk) => WroteChunks(<<LineAt("V1", "m", ln)>>)
               /\ v2(LogMsg, site.options, site.stk) => WroteChunks(<<LineAt("V2", "m", ln)>>)
               /\ v3(LogMsg, site.options, site.stk) => WroteChunks(<<LineAt("V3", "m", ln)>>)
               /\ ifVerbose(LogMsg, site.options, site.stk) =>
                     WroteChunks(<<LineAt("V1", "m", ln)>>)
               /\ ifDebug(LogMsg, site.options, site.stk) =>
                     WroteChunks(<<LineAt("DEBUG", "m", ln)>>)]_vars
    /\ [][\A stk \in SiteStacks :
            /\ announceMyself(Bool(FALSE), stk) =>
                  WroteChunks(<<LineAt("INFO", "called as: node demo.mjs", stk[1].line)>>)
            /\ setDebug(Str("db"), stk) =>
                  WroteChunks(<<LineAt("INFO", "db debugging enabled", stk[1].line)>>)
            /\ setFromArgs(ArgsObj(Num(3), Undefined, List(<<"db">>), Undefined), stk) =>
                  WroteChunks(<<LineAt("INFO", "db debugging enabled", stk[1].line)>>)]_vars

\* error() called with extraFrames 2 in the helper of a helper, and warn()
\* called with extraFrames 1 in the helper, both cited line 30
C19_Witness ==
    /\ ret.op = "warn" /\ ret.arg = Options(Num(1), Undefined, Undefined)
    /\ sinks["stderr"] = <<LineAt("ERROR", "m", 30), LineAt("WARN", "m", 30)>>

\* the named list of status s is empty after the step; its other lists and
\* its value are as they were
ClearedOnly(s, name) ==
    /\ info(s)' = IF name = "info" THEN <<>> ELSE info(s)
    /\ warnings(s)' = IF name = "warnings" THEN <<>> ELSE warnings(s)
    /\ errors(s)' = IF name = "errors" THEN <<>> ELSE errors(s)
    /\ status'[s].value = status[s].value

\* C20: clearErrors, clearWarnings and clearInfo each empty exactly their
\* own list, leave the other two lists and the value unchanged, and return
\* the status object itself.
C20_ClearsReturnSelf ==
    [][\A s \in Statuses :
          /\ clearErrors(s) => (ClearedOnly(s, "errors") /\ ret'.val = This(s))
          /\ clearWarnings(s) => (ClearedOnly(s, "warnings") /\ ret'.val = This(s))
          /\ clearInfo(s) => (ClearedOnly(s, "info") /\ ret'.val = This(s))]_vars

Section(name, entries) == name \o Join(entries, "; ")
Body(s) ==
    LET secs == (IF errors(s) # <<>> THEN <<Section("ERROR: ", errors(s))>> ELSE <<>>)
                \o (IF warnings(s) # <<>> THEN <<Section("WARN: ", warnings(s))>> ELSE <<>>)
                \o (IF info(s) # <<>> THEN <<Section("INFO: ", info(s))>> ELSE <<>>)
    IN IF secs = <<>> THEN "ok" ELSE Join(secs, "; ")
ExtraSuffix(s) == "; extra attributes: " \o makeASCIIMap(getExtraAttrs(s))

Tier(lvl, text, prefix) ==
    "demo: " \o lvl \o ": demo.mjs:12: "
        \o (IF prefix # Undefined THEN prefix.v \o ": " ELSE "") \o text \o "\n"
TiersOf(s, prefix) ==
    (IF errors(s) # <<>> THEN <<Tier("ERROR", Section("ERROR: ", errors(s)), prefix)>> ELSE <<>>)
    \o (IF warnings(s) # <<>> THEN <<Tier("WARN", Section("WARN: ", warnings(s)), prefix)>> ELSE <<>>)
    \o (IF info(s) # <<>> THEN <<Tier("INFO", Section("INFO: ", info(s)), prefix)>> ELSE <<>>)

Found(args, name) ==
    LET plain == IF name = "verbose" THEN args.verbose ELSE args.debug
        dashed == IF name = "verbose" THEN args.dashVerbose ELSE args.dashDebug
    IN IF plain # Undefined THEN plain
       ELSE IF dashed # Undefined THEN dashed
       ELSE IF args.get # Absent THEN args.get[name] ELSE Undefined

\* C25: after setFromArgs(args) the logger's verbosity is an integer: the
\* value found under 'verbose' or '--verbose' (or through get) coerced to an
\* integer, a list of repeated flags to its length and a missing value to 0;
\* with two repeated --verbose flags, level-1 and level-2 messages emit.
C25_VerbosityInteger ==
    /\ (ret.op = "setFromArgs" /\ ~ ret.threw) =>
          LET v0 == Found(ret.arg, "verbose")
          IN verbose = Num(IF v0.t = "array" THEN Len(v0.v)
                           ELSE IF v0 = Undefined THEN 0 ELSE ToNumber(v0))
    /\ (ret.op \in {"v1", "v2"} /\ verboseSet = "setFromArgs" /\ verbose = Num(2)) =>
          /\ ~ ret.threw
          /\ sinks[diagStream] # <<>>
          /\ LastOf(sinks[diagStream]) =
                "demo: " \o (IF ret.op = "v1" THEN "V1" ELSE "V2") \o ": demo.mjs:30: m\n"

\* the parts of the debug value: the comma-separated parts of a string and
\* of each string of a list, '*' for a true value that is not iterable
PartsOf(debug) ==
    IF debug.t = "array" THEN UNION {Range(split(debug.v[i])) : i \in 1..Len(debug.v)}
    ELSE IF debug.t = "string" THEN Range(split(debug.v))
    ELSE IF Truthy(debug) THEN {"*"} ELSE {}

\* C27: setFromArgs enables exactly the tags obtained by comma-splitting the
\* debug value: the parts of each string of a list, the parts of a single
\* comma-separated string, '*' for a true non-iterable value, and nothing for
\* a false or absent value, which leaves the enabled tags in place.
C27_TagsFromArgs ==
    [][(ret'.op = "setFromArgs" /\ ~ ret'.threw) =>
          debugTags' = debugTags \cup PartsOf(Found(ret'.arg, "debug"))]_vars

\* C26: isSetDebug(tag) returns true if and only if the tag is enabled on
\* the logger, isSetDebug() without a tag returns true if and only if at
\* least one debug tag is enabled, and neither call raises.
C26_IsSetDebug ==
    ret.op = "isSetDebug" =>
        /\ ~ ret.threw
        /\ ret.val = Bool(IF ret.arg = Null THEN debugTags # {} ELSE ret.arg.v \in debugTags)

\* whether the gate of a gated call passes in the state
GatePasses(op) ==
    CASE op = "v1" -> ToNumber(verbose) >= 1
      [] op = "v2" -> ToNumber(verbose) >= 2
      [] op = "v3" -> ToNumber(verbose) >= 3
      [] op = "ifVerbose" -> ToNumber(verbose) >= 1
      [] op = "ifDebug" -> "*" \in debugTags

\* C28: when their gate passes and the options carry asString true, v1, v2,
\* v3, ifVerbose and ifDebug return the formatted line as a string instead
\* of writing it to the sink, as info does.
C28_GatedAsString ==
    [][(ret'.op \in {"v1", "v2", "v3", "ifVerbose", "ifDebug", "info"} /\ ret'.arg = AsString
          /\ (ret'.op # "info" => GatePasses(ret'.op))) =>
          /\ sinks' = sinks
          /\ ret'.val = Str("demo: " \o
                 (CASE ret'.op = "ifVerbose" -> "V1"
                    [] ret'.op = "ifDebug" -> "DEBUG"
                    [] ret'.op = "info" -> "INFO"
                    [] OTHER -> IF ret'.op = "v1" THEN "V1" ELSE IF ret'.op = "v2" THEN "V2" ELSE "V3")
                 \o ": demo.mjs:30: m")]_vars

\* the same, for info alone: what the gated calls are compared with
InfoReturnsLine ==
    [][(ret'.op = "info" /\ ret'.arg = AsString) =>
          sinks' = sinks /\ ret'.val = Str("demo: INFO: demo.mjs:30: m")]_vars

\* the entry the last call added, for the add calls
AddedBy(op) ==
    CASE op = "addInfo" -> LastOf(info("R"))
      [] op = "addWarning" -> LastOf(warnings("R"))
      [] op = "addError" -> LastOf(errors("R"))

\* C29, first part alone: the calls leave the Options object unchanged
OptionsKept ==
    [][ret'.op \in {"addInfo", "addWarning", "addError", "log"} => held' = held]_vars

\* C29, second part alone: the second of two consecutive calls with the
\* same Options object stamps or cites the same call site as the first
SameSiteTwice ==
    /\ [][\A first, second \in {"addInfo", "addWarning", "addError"} :
             (ret.op = first /\ ret.arg = Held /\ ret'.op = second /\ ret'.arg = Held) =>
                 AddedBy(second)' = AddedBy(first)]_vars
    /\ [][(ret.op = "log" /\ ret'.op = "log" /\ sinks["stderr"] # <<>>
             /\ Len(sinks'["stderr"]) > Len(sinks["stderr"])) =>
             LastOf(sinks'["stderr"]) = LastOf(sinks["stderr"])]_vars

\* C29: addInfo, addWarning, addError and status.log leave a caller-supplied
\* Options object unchanged: the same Options object passed to two
\* consecutive calls from the same stack depth yields the same frame offset,
\* hence the same stamped call site, on the second call as on the first.
C29_OptionsUnchanged == OptionsKept /\ SameSiteTwice

\* C30: after dedup(list), for every input list, the entries of the list are
\* pairwise distinct, so that a second dedup of the same list changes
\* nothing, also for inputs that hold an entry ending in ' (xN)'.
C30_DedupIdempotent ==
    /\ [](dedups >= 1 => Cardinality(Range(list)) = Len(list))
    /\ [][(dedups >= 1 /\ dedups' = dedups + 1) => list' = list]_vars

\* the same for the lists none of whose entries is another entry with a
\* count appended
NoSuffixed == \A i, j \in 1..Len(listIn) : listIn[i] # listIn[j] \o " (x2)"
DedupIdempotentUnsuffixed ==
    /\ []((dedups >= 1 /\ NoSuffixed) => Cardinality(Range(list)) = Len(list))
    /\ [][(dedups >= 1 /\ dedups' = dedups + 1 /\ NoSuffixed) => list' = list]_vars

====
